---- MODULE Spec2Model ----
(***************************************************************************)
(* WxCC override scheduling backend: schedule validation, status           *)
(* derivation and the whole-container read-modify-write update workflow    *)
(* (OverrideService, WxccApiClient.updateOverride, dateFormat utilities).  *)
(*                                                                         *)
(* Time is counted in ticks; a minute is MinuteLen ticks long, so a        *)
(* timestamp with seconds is an instant that is not a multiple of          *)
(* MinuteLen.  The server runs in UTC (as the repository's tests assume),  *)
(* so parsing a string without offset and formatting an instant agree.     *)
(***************************************************************************)
EXTENDS Integers, Sequences, FiniteSets

VARIABLES container, now, calls, view, wxcc, mappings, mapCall, dbSeq

\* The state of the mapping service: the vendor's containers as it lists
\* them, the mapping table, the last mapping operation, and the highest row
\* id the table has handed out (AUTOINCREMENT)
mapVars == <<wxcc, mappings, mapCall, dbSeq>>

vars == <<container, now, calls, view, wxcc, mappings, mapCall, dbSeq>>

----------------------------------------------------------------------------
(* Bounds *)

MinuteLen == 2

MaxTick == 2

MaxNow == 2

ValMaxTick == 2

ValNow == 1

StatusMaxTick == 3

Ticks == 0..MaxTick

----------------------------------------------------------------------------
(* Timestamp strings.  A string is modelled by its syntactic kind and the  *)
(* instant it denotes:                                                     *)
(*   "wire"  : yyyy-MM-dd'T'HH:mm            (t is a whole minute)         *)
(*   "iso"   : ISO 8601 with seconds/offset, e.g. 2024-01-15T09:30:45Z     *)
(*   "loose" : not ISO 8601 but accepted by the Date constructor,          *)
(*             e.g. "2024/01/15 09:30:45"                                  *)
(*   "bad"   : accepted by neither, e.g. "invalid-date"                    *)
(*   "empty" : the empty string                                            *)
(***************************************************************************)

NaN == -1

WireStr(t) == [fmt |-> "wire", t |-> t]

IsoStr(t) == [fmt |-> "iso", t |-> t]

LooseStr(t) == [fmt |-> "loose", t |-> t]

BadStr == [fmt |-> "bad", t |-> NaN]

EmptyStr == [fmt |-> "empty", t |-> NaN]

\* date-fns parseISO: an instant, or Invalid Date (NaN); it never throws.
ParseISO(s) == IF s.fmt \in {"wire", "iso"} THEN s.t ELSE NaN

\* parseISO raising an exception (the case the validator's catch block handles)
ParseISOThrows(s) == FALSE

\* new Date(string)
NewDate(s) == IF s.fmt \in {"wire", "iso", "loose"} THEN s.t ELSE NaN

\* date-fns isValid
IsValid(d) == d # NaN

\* date-fns isBefore / isAfter: false when either date is invalid
IsBefore(a, b) == a # NaN /\ b # NaN /\ a < b

IsAfter(a, b) == a # NaN /\ b # NaN /\ a > b

\* The repository does not pin its date-fns release.  isWithinInterval of
\* release 2 throws a RangeError unless start <= end (both valid); from
\* release 3 on it never throws and takes the two bounds in ascending order.
\* The date-fns release the build resolves (the repository pins none):
\* release 2, or release 3 and later
DateFnsMajors == {2, 3}

\* isWithinInterval of release 2 throws a RangeError unless start <= end;
\* from release 3 on it never throws
IsWithinIntervalThrows(start, end, major) ==
  major = 2 /\ ~(start # NaN /\ end # NaN /\ start <= end)

\* The bounds of the interval as release 3 sorts them
Earlier(a, b) == IF a <= b THEN a ELSE b

Later(a, b) == IF a <= b THEN b ELSE a

\* isWithinInterval(date, {start, end}) where it does not throw: both ends
\* included; a comparison with an Invalid Date is false
IsWithinInterval(d, start, end, major) ==
  /\ d # NaN /\ start # NaN /\ end # NaN
  /\ IF major = 2 THEN d >= start /\ d <= end
     ELSE d >= Earlier(start, end) /\ d <= Later(start, end)

\* date-fns format(date, "yyyy-MM-dd'T'HH:mm"): seconds are dropped
Format(d) == WireStr(d - (d % MinuteLen))

ToWxccFormatThrows(s) ==
  LET d0 == ParseISO(s)
      d  == IF ~IsValid(d0) THEN NewDate(s) ELSE d0
  IN  ~IsValid(d)

ToWxccFormat(s) ==
  LET d0 == ParseISO(s)
      d  == IF ~IsValid(d0) THEN NewDate(s) ELSE d0
  IN  Format(d)

IsWxccFormat(s) == s.fmt = "wire"

\* JavaScript truthiness of a string
Truthy(s) == s.fmt # "empty"

----------------------------------------------------------------------------
(* Types *)

ContainerId == "container1"

ConfigOrgId == "org1"

DefaultVersion == 1

DefaultTimezone == "UTC"

NoTimezone == ""

Override(n, wh, s, e) ==
  [name |-> n, workingHours |-> wh, startDateTime |-> s, endDateTime |-> e]

UpdateAgentRequest(wh, s, e) ==
  [workingHours |-> wh, startDateTime |-> s, endDateTime |-> e]

Names(c) == {c.overrides[i].name : i \in 1..Len(c.overrides)}

----------------------------------------------------------------------------
(* Status classification *)

\* Variant: an entry is expired from the instant of its end on
DetermineAgentStatusEndExclusive(startDateTime, endDateTime, workingHours, clock) ==
  LET start == ParseISO(startDateTime)
      end   == ParseISO(endDateTime)
  IN  IF ~workingHours THEN "inactive"
      ELSE IF IsBefore(clock, start) THEN "scheduled"
      ELSE IF end # NaN /\ clock >= end THEN "expired"
      ELSE "active"

DetermineAgentStatus(startDateTime, endDateTime, workingHours, clock) ==
  LET start == ParseISO(startDateTime)
      end   == ParseISO(endDateTime)
  IN  IF ~workingHours THEN "inactive"
      ELSE IF IsBefore(clock, start) THEN "scheduled"
      ELSE IF IsAfter(clock, end) THEN "expired"
      ELSE "active"

IsAgentCurrentlyActive(agent, currentTime, major) ==
  IF ~agent.workingHours THEN FALSE
  ELSE LET start == ParseISO(agent.startDateTime)
           end   == ParseISO(agent.endDateTime)
       IN  IF IsWithinIntervalThrows(start, end, major) THEN FALSE
           ELSE IsWithinInterval(currentTime, start, end, major)

MapOverrideToAgent(c, o, clock) ==
  [agentId       |-> o.name,
   containerId   |-> c.id,
   containerName |-> c.name,
   workingHours  |-> o.workingHours,
   startDateTime |-> o.startDateTime,
   endDateTime   |-> o.endDateTime,
   status        |-> DetermineAgentStatus(o.startDateTime, o.endDateTime,
                                          o.workingHours, clock)]

MapWxccOverridesToAgents(c, clock) ==
  [i \in 1..Len(c.overrides) |-> MapOverrideToAgent(c, c.overrides[i], clock)]

MapAgentToResponse(agent, isCurrentlyActive) ==
  [agentId           |-> agent.agentId,
   containerId       |-> agent.containerId,
   containerName     |-> agent.containerName,
   workingHours      |-> agent.workingHours,
   startDateTime     |-> agent.startDateTime,
   endDateTime       |-> agent.endDateTime,
   status            |-> agent.status,
   isCurrentlyActive |-> isCurrentlyActive]

----------------------------------------------------------------------------
(* Schedule validation *)

NoAgent == ""

\* Variant: windows that touch at an endpoint count as overlapping
HasOverlapInclusive(updateStart, updateEnd, agentStart, agentEnd) ==
  /\ updateStart # NaN /\ updateEnd # NaN /\ agentStart # NaN /\ agentEnd # NaN
  /\ updateStart <= agentEnd
  /\ updateEnd >= agentStart

HasOverlap(updateStart, updateEnd, agentStart, agentEnd) ==
  IsBefore(updateStart, agentEnd) /\ IsAfter(updateEnd, agentStart)

\* Variant: the scan also counts agents that are not engaged
ConflictsAtAnyAgent(existingAgents, i, updatingAgentId, updateData) ==
  LET agent == existingAgents[i]
  IN  /\ agent.agentId # updatingAgentId
      /\ IsBefore(ParseISO(updateData.startDateTime), ParseISO(agent.endDateTime))
      /\ IsAfter(ParseISO(updateData.endDateTime), ParseISO(agent.startDateTime))

\* Does existingAgents[i] conflict with the update of updatingAgentId ?
ConflictsAt(existingAgents, i, updatingAgentId, updateData) ==
  LET agent == existingAgents[i]
  IN  /\ agent.agentId # updatingAgentId
      /\ agent.workingHours
      /\ HasOverlap(ParseISO(updateData.startDateTime),
                    ParseISO(updateData.endDateTime),
                    ParseISO(agent.startDateTime),
                    ParseISO(agent.endDateTime))

\* Variant: the scan does not skip the agent that is being updated
FindScheduleConflictIncludingSelf(existingAgents, updatingAgentId, updateData) ==
  LET hits == {i \in 1..Len(existingAgents) :
                 /\ existingAgents[i].workingHours
                 /\ HasOverlap(ParseISO(updateData.startDateTime),
                               ParseISO(updateData.endDateTime),
                               ParseISO(existingAgents[i].startDateTime),
                               ParseISO(existingAgents[i].endDateTime))}
  IN  IF hits = {} THEN 0
      ELSE CHOOSE i \in hits : \A j \in hits : i <= j

\* Index of the first conflicting agent in list order, 0 when there is none
FindScheduleConflict(existingAgents, updatingAgentId, updateData) ==
  LET hits == {i \in 1..Len(existingAgents) :
                 ConflictsAt(existingAgents, i, updatingAgentId, updateData)}
  IN  IF hits = {} THEN 0
      ELSE CHOOSE i \in hits : \A j \in hits : i <= j

ValidationError(field, message, agentId, conflictingAgentId) ==
  [field |-> field, message |-> message, agentId |-> agentId,
   conflictingAgentId |-> conflictingAgentId]

\* The try block of validateAgentScheduleUpdate (date format and logic)
DateErrors(agentId, updateData, clock) ==
  IF ParseISOThrows(updateData.startDateTime)
       \/ ParseISOThrows(updateData.endDateTime)
  THEN <<ValidationError("dateTime", "Invalid date format. Use ISO 8601 format",
                         agentId, NoAgent)>>
  ELSE LET startDate == ParseISO(updateData.startDateTime)
           endDate   == ParseISO(updateData.endDateTime)
       IN  (IF IsAfter(startDate, endDate)
            THEN <<ValidationError("startDateTime",
                                   "Start date must be before end date",
                                   agentId, NoAgent)>>
            ELSE <<>>)
           \o
           (IF IsBefore(endDate, clock)
            THEN <<ValidationError("endDateTime",
                                   "End date cannot be in the past",
                                   agentId, NoAgent)>>
            ELSE <<>>)

\* Variant: the scan goes on after the first conflict and reports each one
ConflictErrorsEvery(fetched, agentId, updateData, clock) ==
  IF updateData.workingHours
  THEN LET agents == MapWxccOverridesToAgents(fetched, clock)
           hits   == {i \in 1..Len(agents) :
                        ConflictsAt(agents, i, agentId, updateData)}
           nth(k) == CHOOSE i \in hits :
                       Cardinality({j \in hits : j < i}) = k - 1
       IN  [k \in 1..Cardinality(hits) |->
              ValidationError("schedule", "Schedule conflicts with agent",
                              agentId, agents[nth(k)].agentId)]
  ELSE <<>>

\* The conflict scan of validateAgentScheduleUpdate on the fetched container
ConflictErrors(fetched, agentId, updateData, clock) ==
  IF updateData.workingHours
  THEN LET agents == MapWxccOverridesToAgents(fetched, clock)
           k      == FindScheduleConflict(agents, agentId, updateData)
       IN  IF k # 0
           THEN <<ValidationError("schedule", "Schedule conflicts with agent",
                                  agentId, agents[k].agentId)>>
           ELSE <<>>
  ELSE <<>>

ValidateAgentScheduleUpdate(fetched, agentId, updateData, clock) ==
  LET errors == DateErrors(agentId, updateData, clock)
                  \o ConflictErrors(fetched, agentId, updateData, clock)
  IN  [isValid |-> errors = <<>>, errors |-> errors]

----------------------------------------------------------------------------
(* One updateAgentSchedule call.  Optional values are sequences of length  *)
(* 0 or 1.  pc names the await the call is suspended at:                   *)
(*   "validate" : validateAgentScheduleUpdate, GET for the conflict scan    *)
(*                (engaged candidates only; the date checks were made, on  *)
(*                the clock of that moment, when the call started)         *)
(*   "fetch"    : updateOverride step 1, GET of the full container         *)
(*   "put"      : updateOverride step 5, PUT of the complete payload       *)
(*   "refetch"  : GET of the container for its name, after the PUT         *)
(***************************************************************************)

NoError == [kind |-> "none", text |-> "", messages |-> <<>>]

Failure(kind, text) == [kind |-> kind, text |-> text, messages |-> <<>>]

\* Variant: only the first error message is reported
ValidationFailureFirstOnly(errors) ==
  [kind |-> "ValidationFailed", text |-> "Validation failed",
   messages |-> <<<<errors[1].message, errors[1].conflictingAgentId>>>>]

\* `Validation failed: ${errors.map(e => e.message).join(', ')}`
ValidationFailure(errors) ==
  [kind |-> "ValidationFailed", text |-> "Validation failed",
   messages |-> [i \in 1..Len(errors) |->
                   <<errors[i].message, errors[i].conflictingAgentId>>]]

\* startedAt: the clock when the call started (read by the date checks);
\* snapshot: the container the conflict scan was given; fullContainer: the
\* container updateOverride fetched; statusAt: the clock when the result's
\* status was derived; http: the handler's configuration when the call came
\* in through the HTTP handler
IdleCall ==
  [pc |-> "idle", agentId |-> NoAgent, updateData |-> <<>>,
   startedAt |-> 0, validated |-> FALSE, validation |-> <<>>,
   snapshot |-> <<>>,
   fullContainer |-> <<>>, payload |-> <<>>, putIssued |-> FALSE,
   readAt |-> 0, wroteAt |-> 0, puts |-> 0, putAnswer |-> "",
   returned |-> <<>>, result |-> <<>>, statusAt |-> 0, error |-> NoError,
   http |-> <<>>, response |-> <<>>]

NewCall(agentId, updateData, clock) ==
  [IdleCall EXCEPT !.pc = "validate", !.agentId = agentId,
                   !.updateData = <<updateData>>, !.startedAt = clock]

Fail(c, err) == [c EXCEPT !.pc = "done", !.error = err]

\* fullContainer.overrides.findIndex(override => override.name === agentId);
\* 0 stands for -1
FindIndex(overrides, agentId) ==
  LET hits == {i \in 1..Len(overrides) : overrides[i].name = agentId}
  IN  IF hits = {} THEN 0 ELSE CHOOSE i \in hits : \A j \in hits : i <= j

\* response.data.overrides?.find(override => override.name === agentId)
FindOverride(overrides, agentId) ==
  LET k == FindIndex(overrides, agentId)
  IN  IF k = 0 THEN <<>> ELSE <<overrides[k]>>

\* { ...fullContainer.overrides[overrideIndex], ...overrideData }
SpreadOverride(existing, agentId, updateData) ==
  [existing EXCEPT !.name = agentId,
                   !.workingHours = updateData.workingHours,
                   !.startDateTime = updateData.startDateTime,
                   !.endDateTime = updateData.endDateTime]

ConvertThrows(o) ==
  \/ Truthy(o.startDateTime) /\ ToWxccFormatThrows(o.startDateTime)
  \/ Truthy(o.endDateTime) /\ ToWxccFormatThrows(o.endDateTime)

\* Convert dates to WxCC format if they exist
ConvertDates(o) ==
  [o EXCEPT !.startDateTime = IF Truthy(@) THEN ToWxccFormat(@) ELSE @,
            !.endDateTime = IF Truthy(@) THEN ToWxccFormat(@) ELSE @]

\* Variant: the old entry is removed and the updated one appended
UpdatedOverridesAppended(overrides, overrideIndex, updatedOverride) ==
  SubSeq(overrides, 1, overrideIndex - 1)
    \o SubSeq(overrides, overrideIndex + 1, Len(overrides))
    \o <<updatedOverride>>

\* Variant: the new fields are written into every entry
UpdatedOverridesEverywhere(overrides, overrideIndex, updatedOverride) ==
  [i \in 1..Len(overrides) |->
     [updatedOverride EXCEPT !.name = overrides[i].name]]

\* fullContainer.overrides[overrideIndex] = updatedOverride
UpdatedOverrides(overrides, overrideIndex, updatedOverride) ==
  [overrides EXCEPT ![overrideIndex] = updatedOverride]

CompleteContainerPayload(fullContainer, overrides, clock) ==
  [id               |-> fullContainer.id,
   organizationId   |-> ConfigOrgId,
   version          |-> IF fullContainer.version # 0
                        THEN fullContainer.version ELSE DefaultVersion,
   name             |-> fullContainer.name,
   description      |-> fullContainer.description,
   timezone         |-> IF fullContainer.timezone # NoTimezone
                        THEN fullContainer.timezone ELSE DefaultTimezone,
   createdTime      |-> fullContainer.createdTime,
   lastModifiedTime |-> Format(clock),
   overrides        |-> overrides]

\* Number of PUTs the vendor has stored for the calls in flight
Writes(cs) == Cardinality({p \in DOMAIN cs : cs[p].wroteAt > 0})

----------------------------------------------------------------------------
(* The steps of a call, one per vendor request it awaits.  Each takes the  *)
(* call record c, the vendor-side container cont and the clock at the      *)
(* moment the request is answered, and the outcome of that request; each   *)
(* returns the new call record and the new vendor-side container.          *)
(***************************************************************************)

Outcome(c, cont) == [call |-> c, container |-> cont]

\* updateAgentSchedule lines 113-119 with validateAgentScheduleUpdate: the
\* date checks read the clock before the first await, so they see the clock
\* of the call's start; an engaged candidate then awaits getContainerById
ValidateStep(c, cont, getOk) ==
  LET upd == c.updateData[1]
  IN  IF upd.workingHours /\ ~getOk
      THEN Outcome(Fail(c, Failure("UpstreamReadFailed",
                                   "Failed to fetch container")), cont)
      ELSE LET v  == ValidateAgentScheduleUpdate(cont, c.agentId, upd,
                                                 c.startedAt)
               c1 == [c EXCEPT !.validated = TRUE, !.validation = v.errors,
                               !.snapshot = IF upd.workingHours
                                            THEN <<cont>> ELSE <<>>]
           IN  IF ~v.isValid
               THEN Outcome([c1 EXCEPT !.pc = "done",
                                       !.error = ValidationFailure(v.errors)],
                            cont)
               ELSE Outcome([c1 EXCEPT !.pc = "fetch"], cont)

\* The call up to its first await: a candidate that is not engaged is
\* validated without a request and the call goes on to updateOverride
StartCall(agentId, updateData, cont, clock) ==
  LET c == NewCall(agentId, updateData, clock)
  IN  IF updateData.workingHours THEN c
      ELSE ValidateStep(c, cont, TRUE).call

\* updateOverride steps 1-4: GET, locate, overlay, convert, build payload
FetchStep(c, cont, clock, getOk, nWrites) ==
  IF ~getOk
  THEN Outcome(Fail(c, Failure("UpstreamReadFailed",
                               "Failed to fetch container")), cont)
  ELSE LET overrideIndex == FindIndex(cont.overrides, c.agentId)
       IN  IF overrideIndex = 0
           THEN Outcome(Fail([c EXCEPT !.fullContainer = <<cont>>,
                                       !.readAt = nWrites],
                             Failure("EntryNotFound",
                                     "Override not found in container")), cont)
           ELSE LET spread == SpreadOverride(cont.overrides[overrideIndex],
                                             c.agentId, c.updateData[1])
                IN  IF ConvertThrows(spread)
                    THEN Outcome(Fail([c EXCEPT !.fullContainer = <<cont>>,
                                                !.readAt = nWrites],
                                      Failure("InvalidTimestamp",
                                              "Invalid date input")), cont)
                    ELSE Outcome(
                           [c EXCEPT !.pc = "put",
                                     !.fullContainer = <<cont>>,
                                     !.readAt = nWrites,
                                     !.putIssued = TRUE,
                                     !.payload = <<CompleteContainerPayload(
                                        cont,
                                        UpdatedOverrides(cont.overrides,
                                          overrideIndex, ConvertDates(spread)),
                                        clock)>>],
                           cont)

\* Variant: a failed PUT is sent once more before the failure is reported
PutStepRetrying(c, cont, putOutcome, nWrites) ==
  IF putOutcome = "fail"
  THEN IF c.puts = 0
       THEN Outcome([c EXCEPT !.puts = @ + 1], cont)
       ELSE Outcome(Fail([c EXCEPT !.puts = @ + 1, !.putAnswer = putOutcome],
                         Failure("UpstreamWriteFailed", "PUT failed")), cont)
  ELSE LET stored   == c.payload[1]
           response == IF putOutcome = "omit" THEN <<>> ELSE stored.overrides
           found    == FindOverride(response, c.agentId)
           c1       == [c EXCEPT !.wroteAt = nWrites + 1, !.puts = @ + 1,
                                 !.putAnswer = putOutcome]
       IN  IF found = <<>>
           THEN Outcome(Fail(c1, Failure("UpstreamWriteFailed",
                                   "Updated override not found in response")),
                        stored)
           ELSE Outcome([c1 EXCEPT !.pc = "refetch", !.returned = found],
                        stored)

\* updateOverride step 5: the vendor handles the PUT and answers.
\*   "ok"   : payload stored, response is the stored container
\*   "omit" : payload stored, response lacks the override list
\*   "fail" : transport failure or non-2xx answer, nothing stored
PutStep(c, cont, putOutcome, nWrites) ==
  IF putOutcome = "fail"
  THEN Outcome(Fail([c EXCEPT !.puts = @ + 1, !.putAnswer = putOutcome],
                    Failure("UpstreamWriteFailed", "PUT failed")), cont)
  ELSE LET stored   == c.payload[1]
           response == IF putOutcome = "omit" THEN <<>> ELSE stored.overrides
           found    == FindOverride(response, c.agentId)
           c1       == [c EXCEPT !.wroteAt = nWrites + 1, !.puts = @ + 1,
                                 !.putAnswer = putOutcome]
       IN  IF found = <<>>
           THEN Outcome(Fail(c1, Failure("UpstreamWriteFailed",
                                   "Updated override not found in response")),
                        stored)
           ELSE Outcome([c1 EXCEPT !.pc = "refetch", !.returned = found],
                        stored)

\* updateAgentSchedule lines 129-148: GET for the container name, build Agent
RefetchStep(c, cont, clock, getOk) ==
  IF ~getOk
  THEN Outcome(Fail(c, Failure("UpstreamReadFailed",
                               "Failed to fetch container")), cont)
  ELSE LET o == c.returned[1]
       IN  Outcome([c EXCEPT !.pc = "done",
                             !.statusAt = clock,
                             !.result = <<[agentId       |-> o.name,
                                           containerId   |-> ContainerId,
                                           containerName |-> cont.name,
                                           workingHours  |-> o.workingHours,
                                           startDateTime |-> o.startDateTime,
                                           endDateTime   |-> o.endDateTime,
                                           status        |->
                                             DetermineAgentStatus(
                                               o.startDateTime, o.endDateTime,
                                               o.workingHours, clock)]>>],
                   cont)

----------------------------------------------------------------------------
(* The handler of PUT /containers/:containerId/agents/:agentId around the  *)
(* call: its answers                                                       *)

NodeEnvs == {"development", "production"}

\* Agents of the built-in mock data
MockAgentIds == {"a"}

HttpResponse(status, success, mock) ==
  [status |-> status, success |-> success, mock |-> mock]

\* errorMessage.includes(phrase), for the messages the update can fail with
Includes(err, phrase) ==
  CASE phrase = "Validation failed" -> err.kind = "ValidationFailed"
    [] phrase = "not found" ->
         err.text \in {"Override not found in container",
                       "Updated override not found in response"}
    [] OTHER -> FALSE

\* The catch block of the handler
ErrorResponse(err, nodeEnv) ==
  IF nodeEnv = "development" THEN HttpResponse(200, TRUE, TRUE)
  ELSE IF Includes(err, "Validation failed") THEN HttpResponse(400, FALSE, FALSE)
  ELSE IF Includes(err, "not found") THEN HttpResponse(404, FALSE, FALSE)
  ELSE HttpResponse(500, FALSE, FALSE)

\* The mock branch taken in development mode without an access token
MockResponse(agentId) ==
  IF agentId \notin MockAgentIds THEN HttpResponse(404, FALSE, FALSE)
  ELSE HttpResponse(200, TRUE, TRUE)

\* The handler's answer once the call it awaits has ended
Respond(c) ==
  IF c.pc = "done" /\ c.http # <<>> /\ c.response = <<>>
  THEN [c EXCEPT !.response =
          <<IF c.error.kind = "none"
            THEN HttpResponse(200, TRUE, FALSE)
            ELSE ErrorResponse(c.error, c.http[1].nodeEnv)>>]
  ELSE c

----------------------------------------------------------------------------
(* State *)

Procs == {"p1", "p2"}

SeqProc == "p1"

IdleView == [pc |-> "idle", agents |-> <<>>, statusAt |-> 0,
             response |-> <<>>, liveAt |-> 0, dateFns |-> 0]

AllIdle == \A p \in Procs : calls[p].pc = "idle"

\* One call into the mapping service or the database service.  found: the
\* row the call's first SELECT returned; before: the table when the call
\* began; io: the outcomes of the vendor requests of its validation so far;
\* at: the clock when its date checks ran; context: the agent data read for
\* the response; reading: the caller of the read of all containers under
\* way; next: the container whose detail request is outstanding;
\* containers, down: the containers that read has built and those it has
\* skipped; target: the agent handed to the schedule validator
IdleMapCall ==
  [op |-> "idle", pc |-> "idle", overrideName |-> NoAgent,
   workingHoursActive |-> FALSE, agentName |-> "", names |-> {},
   agents |-> <<>>, reading |-> "", next |-> 0, containers |-> <<>>,
   down |-> {}, target |-> <<>>,
   io |-> <<>>, at |-> 0, found |-> <<>>, before |-> {}, validated |-> FALSE,
   validation |-> <<>>, context |-> <<>>,
   error |-> NoError, responses |-> <<>>, returned |-> <<>>, changes |-> 0,
   status |-> 0]

\* The mapping service is not involved
NoMappingService ==
  /\ wxcc = <<>>
  /\ mappings = {}
  /\ mapCall = [p \in Procs |-> IdleMapCall]
  /\ dbSeq = 0

----------------------------------------------------------------------------
(* Inputs *)

WireTimes == {WireStr(t) : t \in {u \in Ticks : u % MinuteLen = 0}}

\* Timestamp strings a caller may send
LooseTicks == {0}

RequestTimes ==
  {IsoStr(t) : t \in Ticks} \cup {LooseStr(t) : t \in LooseTicks} \cup {BadStr}

Requests ==
  {UpdateAgentRequest(wh, s, e) :
     wh \in BOOLEAN, s \in RequestTimes, e \in RequestTimes}

AgentIds == {"a", "b", "c"}

\* Two engaged overrides of one container with overlapping windows
Conflicting(o1, o2) ==
  /\ o1.workingHours
  /\ o2.workingHours
  /\ HasOverlap(ParseISO(o1.startDateTime), ParseISO(o1.endDateTime),
                ParseISO(o2.startDateTime), ParseISO(o2.endDateTime))

ConflictFree(c) ==
  \A i, j \in 1..Len(c.overrides) :
     i # j => ~Conflicting(c.overrides[i], c.overrides[j])

MakeContainer(version, timezone, overrides) ==
  [id               |-> ContainerId,
   organizationId   |-> ConfigOrgId,
   version          |-> version,
   name             |-> "Sales Team Override",
   description      |-> "Override container for sales team",
   timezone         |-> timezone,
   createdTime      |-> WireStr(0),
   lastModifiedTime |-> WireStr(0),
   overrides        |-> overrides]

\* version/timezone as the vendor returns them: both set, or both missing
Metas == {<<2, "CET">>, <<0, NoTimezone>>}

OverridesOver(times) ==
  {<<Override("a", wa, sa, ea), Override("b", wb, sb, eb)>> :
     wa \in BOOLEAN, sa \in times, ea \in times,
     wb \in BOOLEAN, sb \in times, eb \in times}

Containers(times) ==
  {MakeContainer(m[1], m[2], os) : m \in Metas, os \in OverridesOver(times)}

----------------------------------------------------------------------------
(* Sequential updates: every call returns before the next one starts; the *)
(* clock may advance between the requests a call awaits                    *)

Init ==
  /\ container \in {c \in Containers(WireTimes) : ConflictFree(c)}
  /\ now = 0
  /\ calls = [p \in Procs |-> IdleCall]
  /\ view = IdleView
  /\ NoMappingService

\* A caller starts updateAgentSchedule(containerId, agentId, updateData)
Begin(p, agentId, updateData) ==
  /\ calls[p].pc = "idle"
  /\ calls' = [calls EXCEPT ![p] = StartCall(agentId, updateData, container,
                                              now)]
  /\ UNCHANGED <<container, now, view, mapVars>>

\* The same, while no other call is in flight
BeginAlone(p, agentId, updateData) ==
  /\ AllIdle
  /\ Begin(p, agentId, updateData)

\* The vendor answers the GET of validateAgentScheduleUpdate
Validate(p, getOk) ==
  /\ calls[p].pc = "validate"
  /\ LET r == ValidateStep(calls[p], container, getOk)
     IN  /\ calls' = [calls EXCEPT ![p] = Respond(r.call)]
         /\ container' = r.container
  /\ UNCHANGED <<now, view, mapVars>>

\* The vendor answers the GET of updateOverride
Fetch(p, getOk) ==
  /\ calls[p].pc = "fetch"
  /\ LET r == FetchStep(calls[p], container, now, getOk, Writes(calls))
     IN  /\ calls' = [calls EXCEPT ![p] = Respond(r.call)]
         /\ container' = r.container
  /\ UNCHANGED <<now, view, mapVars>>

\* The vendor handles the PUT of updateOverride
Put(p, putOutcome) ==
  /\ calls[p].pc = "put"
  /\ LET r == PutStep(calls[p], container, putOutcome, Writes(calls))
     IN  /\ calls' = [calls EXCEPT ![p] = Respond(r.call)]
         /\ container' = r.container
  /\ UNCHANGED <<now, view, mapVars>>

\* The vendor answers the GET for the container name
Refetch(p, getOk) ==
  /\ calls[p].pc = "refetch"
  /\ LET r == RefetchStep(calls[p], container, now, getOk)
     IN  /\ calls' = [calls EXCEPT ![p] = Respond(r.call)]
         /\ container' = r.container
  /\ UNCHANGED <<now, view, mapVars>>

\* The caller has taken the outcome
Return(p) ==
  /\ calls[p].pc = "done"
  /\ calls' = [calls EXCEPT ![p] = IdleCall]
  /\ UNCHANGED <<container, now, view, mapVars>>

Tick ==
  /\ now < MaxNow
  /\ now' = now + 1
  /\ UNCHANGED <<container, calls, view, mapVars>>

\* In the sequential runs the vendor answers every request
Next ==
  \/ \E agentId \in AgentIds, updateData \in Requests :
       BeginAlone(SeqProc, agentId, updateData)
  \/ \E p \in Procs : Validate(p, TRUE)
  \/ \E p \in Procs : Fetch(p, TRUE)
  \/ \E p \in Procs : Put(p, "ok")
  \/ \E p \in Procs : Refetch(p, TRUE)
  \/ \E p \in Procs : Return(p)
  \/ Tick

Spec == Init /\ [][Next]_vars

----------------------------------------------------------------------------
(* Validation alone: a call is started at some clock and the request of    *)
(* validateAgentScheduleUpdate is answered, possibly later                 *)

ValTimes == {IsoStr(t) : t \in 0..ValMaxTick}

ValRequests ==
  {UpdateAgentRequest(wh, s, e) :
     wh \in BOOLEAN, s \in ValTimes \cup {BadStr}, e \in ValTimes \cup {BadStr}}

InitValidate ==
  /\ container \in {MakeContainer(2, "CET", os) : os \in OverridesOver(ValTimes)}
  /\ now = 0
  /\ calls = [p \in Procs |-> IdleCall]
  /\ view = IdleView
  /\ NoMappingService

ValTick ==
  /\ now < ValNow
  /\ now' = now + 1
  /\ UNCHANGED <<container, calls, view, mapVars>>

NextValidate ==
  \/ \E agentId \in AgentIds, updateData \in ValRequests :
       BeginAlone(SeqProc, agentId, updateData)
  \/ \E p \in Procs, getOk \in BOOLEAN : Validate(p, getOk)
  \/ ValTick

SpecValidate == InitValidate /\ [][NextValidate]_vars

----------------------------------------------------------------------------
(* Concurrent updates: the calls interleave at their awaits *)

ConcAgentIds == {"a", "b"}

ConcRequests ==
  {UpdateAgentRequest(wh, IsoStr(0), e) :
     wh \in BOOLEAN, e \in {IsoStr(0), IsoStr(MinuteLen)}}

InitConc ==
  /\ container \in
       {MakeContainer(2, "CET",
          <<Override("a", wa, WireStr(0), WireStr(MinuteLen)),
            Override("b", wb, WireStr(0), WireStr(MinuteLen))>>) :
          wa \in BOOLEAN, wb \in {FALSE}}
  /\ now = 0
  /\ calls = [p \in Procs |-> IdleCall]
  /\ view = IdleView
  /\ NoMappingService

NextConc ==
  \/ \E p \in Procs, agentId \in ConcAgentIds, updateData \in ConcRequests :
       Begin(p, agentId, updateData)
  \/ \E p \in Procs, getOk \in BOOLEAN : Validate(p, getOk)
  \/ \E p \in Procs, getOk \in BOOLEAN : Fetch(p, getOk)
  \/ \E p \in Procs, putOutcome \in {"ok", "omit", "fail"} : Put(p, putOutcome)
  \/ \E p \in Procs, getOk \in BOOLEAN : Refetch(p, getOk)
  \/ Tick

SpecConc == InitConc /\ [][NextConc]_vars

----------------------------------------------------------------------------
(* Status display: getContainerById maps the overrides to agents with a    *)
(* status, getContainerForFrontend then adds the live flag                 *)

StatusTimes == {IsoStr(t) : t \in 0..StatusMaxTick} \cup {BadStr}

InitStatus ==
  /\ container \in
       {MakeContainer(2, "CET", <<Override("a", wh, s, e)>>) :
          wh \in BOOLEAN, s \in StatusTimes, e \in StatusTimes}
  /\ now = 0
  /\ calls = [p \in Procs |-> IdleCall]
  /\ view = IdleView
  /\ NoMappingService

GetContainerById ==
  /\ view.pc = "idle"
  /\ view' = [view EXCEPT !.pc = "mapped",
                          !.agents = MapWxccOverridesToAgents(container, now),
                          !.statusAt = now]
  /\ UNCHANGED <<container, now, calls, mapVars>>

\* major: the date-fns release the service was installed with
GetContainerForFrontend(major) ==
  /\ view.pc = "mapped"
  /\ view' = [view EXCEPT
                !.pc = "done",
                !.response = [i \in 1..Len(view.agents) |->
                                MapAgentToResponse(view.agents[i],
                                  IsAgentCurrentlyActive(view.agents[i], now,
                                                         major))],
                !.liveAt = now,
                !.dateFns = major]
  /\ UNCHANGED <<container, now, calls, mapVars>>

StatusTick ==
  /\ now < StatusMaxTick
  /\ now' = now + 1
  /\ UNCHANGED <<container, calls, view, mapVars>>

NextStatus ==
  \/ GetContainerById
  \/ \E major \in DateFnsMajors : GetContainerForFrontend(major)
  \/ StatusTick

SpecStatus == InitStatus /\ [][NextStatus]_vars

----------------------------------------------------------------------------
(* One update of a container whose entries the vendor returned with        *)
(* seconds (as in the repository's fixtures), by a caller that may also    *)
(* send empty timestamp strings                                            *)

FetchedTimes == {WireStr(0), IsoStr(1)}

FormatRequestTimes ==
  {IsoStr(t) : t \in Ticks} \cup {LooseStr(t) : t \in LooseTicks} \cup {EmptyStr}

FormatRequests ==
  {UpdateAgentRequest(wh, s, e) :
     wh \in BOOLEAN, s \in FormatRequestTimes, e \in FormatRequestTimes}

InitFormat ==
  /\ container \in
       {MakeContainer(m[1], m[2],
          <<Override("a", wa, WireStr(0), WireStr(MinuteLen)),
            Override("b", FALSE, s, e)>>) :
          m \in Metas, wa \in BOOLEAN, s \in FetchedTimes, e \in FetchedTimes}
  /\ now = 0
  /\ calls = [p \in Procs |-> IdleCall]
  /\ view = IdleView
  /\ NoMappingService

NextFormat ==
  \/ \E agentId \in ConcAgentIds, updateData \in FormatRequests :
       BeginAlone(SeqProc, agentId, updateData)
  \/ \E p \in Procs : Validate(p, TRUE)
  \/ \E p \in Procs : Fetch(p, TRUE)
  \/ \E p \in Procs : Put(p, "ok")
  \/ \E p \in Procs : Refetch(p, TRUE)
  \/ Tick

SpecFormat == InitFormat /\ [][NextFormat]_vars

----------------------------------------------------------------------------
(* The same update sent twice in succession: the first call returns, time  *)
(* may pass, the caller sends the identical request again; the second call *)
(* runs through its awaits like the first                                  *)

RepeatProc == "p2"

\* The caller of the first call, which has succeeded, starts it again
UpdateAgentScheduleAgain ==
  /\ calls[SeqProc].pc = "done"
  /\ calls[SeqProc].error.kind = "none"
  /\ Begin(RepeatProc, calls[SeqProc].agentId, calls[SeqProc].updateData[1])

NextRepeat ==
  \/ \E agentId \in AgentIds, updateData \in Requests :
       BeginAlone(SeqProc, agentId, updateData)
  \/ UpdateAgentScheduleAgain
  \/ \E p \in Procs : Validate(p, TRUE)
  \/ \E p \in Procs : Fetch(p, TRUE)
  \/ \E p \in Procs : Put(p, "ok")
  \/ \E p \in Procs : Refetch(p, TRUE)
  \/ Tick

SpecRepeat == Init /\ [][NextRepeat]_vars

----------------------------------------------------------------------------
(* The HTTP handler PUT /containers/:containerId/agents/:agentId of        *)
(* OverrideController: two requests in flight, each around one call of the *)
(* service, interleaving at the awaits                                     *)

HttpRequests ==
  {UpdateAgentRequest(TRUE, IsoStr(0), e) : e \in {IsoStr(0), IsoStr(MinuteLen)}}

InitHttp ==
  /\ container \in
       {MakeContainer(2, "CET",
          <<Override("a", wa, WireStr(0), WireStr(MinuteLen)),
            Override("b", wb, WireStr(0), WireStr(MinuteLen))>>) :
          wa \in BOOLEAN, wb \in {FALSE}}
  /\ now = 0
  /\ calls = [p \in Procs |-> IdleCall]
  /\ view = IdleView
  /\ NoMappingService

\* The handler up to its first await: in development mode without an access
\* token it answers from the mock data, otherwise it starts the service call
PutAgentSchedule(p, agentId, updateData, nodeEnv, accessToken) ==
  /\ calls[p].pc = "idle"
  /\ IF nodeEnv = "development" /\ ~accessToken
     THEN calls' = [calls EXCEPT ![p] =
                      [IdleCall EXCEPT !.pc = "done", !.agentId = agentId,
                                       !.updateData = <<updateData>>,
                                       !.startedAt = now,
                                       !.response = <<MockResponse(agentId)>>]]
     ELSE calls' = [calls EXCEPT ![p] =
                      Respond([StartCall(agentId, updateData, container, now)
                                 EXCEPT !.http = <<[nodeEnv |-> nodeEnv]>>])]
  /\ UNCHANGED <<container, now, view, mapVars>>

NextHttp ==
  \/ \E p \in Procs, agentId \in AgentIds, updateData \in HttpRequests,
        nodeEnv \in NodeEnvs, accessToken \in BOOLEAN :
       PutAgentSchedule(p, agentId, updateData, nodeEnv, accessToken)
  \/ \E p \in Procs, getOk \in BOOLEAN : Validate(p, getOk)
  \/ \E p \in Procs, getOk \in BOOLEAN : Fetch(p, getOk)
  \/ \E p \in Procs, putOutcome \in {"ok", "omit", "fail"} : Put(p, putOutcome)
  \/ \E p \in Procs, getOk \in BOOLEAN : Refetch(p, getOk)
  \/ Tick

SpecHttp == InitHttp /\ [][NextHttp]_vars

----------------------------------------------------------------------------
(* The mapping service: a table of agent names and working-hours flags     *)
(* keyed by override name, kept beside the vendor's containers             *)

SecondContainerId == "container2"

\* Override names in alphabetical order (localeCompare)
NameOrder == <<"a", "b", "c", "d">>

AgentMapping(id, overrideName, agentName, workingHoursActive) ==
  [id |-> id, overrideName |-> overrideName, agentName |-> agentName,
   workingHoursActive |-> workingHoursActive]

\* databaseService.getMapping: the row of the override name, if any
GetMapping(store, overrideName) ==
  LET hits == {m \in store : m.overrideName = overrideName}
  IN  IF hits = {} THEN <<>> ELSE <<CHOOSE m \in hits : TRUE>>

\* databaseService.updateWorkingHours: UPDATE ... WHERE override_name = ?
DbUpdateWorkingHours(store, overrideName, workingHoursActive) ==
  {IF m.overrideName = overrideName
   THEN [m EXCEPT !.workingHoursActive = workingHoursActive]
   ELSE m : m \in store}

\* Variant: the DELETE is issued for an empty list as well
CleanupOrphanedMappingsUnguarded(store, activeOverrideNames) ==
  {m \in store : m.overrideName \in activeOverrideNames}

\* databaseService.cleanupOrphanedMappings:
\* DELETE ... WHERE override_name NOT IN (activeOverrideNames)
CleanupOrphanedMappings(store, activeOverrideNames) ==
  IF activeOverrideNames = {} THEN store
  ELSE {m \in store : m.overrideName \in activeOverrideNames}

\* The OverrideContainer built from one answered detail request; the agents
\* are labelled with the clock read when that request is answered
ContainerWithAgents(c, clock) ==
  [id     |-> c.id,
   name   |-> c.name,
   agents |-> MapWxccOverridesToAgents(c, clock)]

\* The agents of all containers, in iteration order
RECURSIVE AgentsOf(_)
AgentsOf(containers) ==
  IF containers = <<>> THEN <<>>
  ELSE Head(containers).agents \o AgentsOf(Tail(containers))

AgentNames(agents) == {agents[i].agentId : i \in 1..Len(agents)}

\* mappingService.getWxccAgentByOverrideName on the containers its read
\* returned: the first agent of that name, none when there is no such agent
\* or the read threw (the catch block returns null)
GetWxccAgentByOverrideName(listOk, containers, overrideName) ==
  IF ~listOk THEN <<>>
  ELSE LET agents == AgentsOf(containers)
           hits   == {i \in 1..Len(agents) : agents[i].agentId = overrideName}
       IN  IF hits = {} THEN <<>>
           ELSE <<agents[CHOOSE i \in hits : \A j \in hits : i <= j]>>

ContainerOf(list, id) ==
  list[CHOOSE i \in 1..Len(list) : list[i].id = id]

\* Variant: an override that cannot be found in WxCC passes the validation
ValidateWorkingHoursActivationLenient(target, list, getOk, overrideName, clock) ==
  IF target = <<>>
  THEN [isValid |-> TRUE, errors |-> <<>>]
  ELSE IF ~getOk
  THEN [isValid |-> FALSE,
        errors  |-> <<ValidationError("validation", "Validation error",
                                      overrideName, NoAgent)>>]
  ELSE ValidateAgentScheduleUpdate(
         ContainerOf(list, target[1].containerId), overrideName,
         UpdateAgentRequest(TRUE, target[1].startDateTime,
                            target[1].endDateTime),
         clock)

\* mappingService.validateWorkingHoursActivation, given the agent that
\* getWxccAgentByOverrideName returned (target), the vendor's containers
\* (list) and the outcome of the validator's own request (getOk); clock is
\* the instant of the validator's date checks
ValidateWorkingHoursActivation(target, list, getOk, overrideName, clock) ==
  IF target = <<>>
  THEN [isValid |-> FALSE,
        errors  |-> <<ValidationError("overrideName",
                                      "Override not found in WxCC",
                                      overrideName, NoAgent)>>]
  ELSE IF ~getOk
  THEN [isValid |-> FALSE,
        errors  |-> <<ValidationError("validation", "Validation error",
                                      overrideName, NoAgent)>>]
  ELSE ValidateAgentScheduleUpdate(
         ContainerOf(list, target[1].containerId), overrideName,
         UpdateAgentRequest(TRUE, target[1].startDateTime,
                            target[1].endDateTime),
         clock)

\* One OverrideMappingResponse per override known to WxCC, sorted by name
MappingResponses(store, agents) ==
  LET names  == SelectSeq(NameOrder, LAMBDA n : n \in AgentNames(agents))
  IN  [k \in 1..Len(names) |->
         LET mapping == GetMapping(store, names[k])
         IN  [overrideName       |-> names[k],
              isMapped           |-> mapping # <<>>,
              workingHoursActive |-> IF mapping = <<>> THEN FALSE
                                     ELSE mapping[1].workingHoursActive]]

MapStores ==
  {sa \cup sc \cup sd :
     sa \in {{}, {AgentMapping(1, "a", "Ann", FALSE)},
                 {AgentMapping(1, "a", "Ann", TRUE)}},
     sc \in {{}, {AgentMapping(2, "c", "Cy", FALSE)}},
     sd \in {{}, {AgentMapping(3, "d", "Di", FALSE)}}}

WxccLists ==
  {<<MakeContainer(2, "CET",
       <<Override("a", wa, IsoStr(sa), IsoStr(ea)),
         Override("b", wb, IsoStr(0), IsoStr(MinuteLen))>>),
     [MakeContainer(2, "CET",
        <<Override("c", TRUE, IsoStr(0), IsoStr(MinuteLen))>>)
        EXCEPT !.id = SecondContainerId]>> :
     wa \in BOOLEAN, wb \in BOOLEAN,
     sa \in {0, MinuteLen}, ea \in {0, MinuteLen}}

\* Agent names a caller may send, and String.prototype.trim on them
AgentNameInputs == {"Bob", " Bob", " ", ""}

Trim(n) ==
  CASE n = " Bob" -> "Bob"
    [] n = " " -> ""
    [] OTHER -> n

\* Variant: INSERT OR REPLACE, the row is written anew
UpsertMappingReplacing(store, seq, overrideName, agentName) ==
  [rows |-> {m \in store : m.overrideName # overrideName}
              \cup {AgentMapping(seq + 1, overrideName, agentName, FALSE)},
   seq  |-> seq + 1]

\* databaseService.upsertMapping:
\* INSERT ... VALUES (?, ?, 0) ON CONFLICT(override_name) DO UPDATE SET agent_name
\* The id column is INTEGER PRIMARY KEY AUTOINCREMENT: SQLite allots the next
\* rowid before it meets the conflict, so sqlite_sequence advances on the
\* DO UPDATE path as well, while the row keeps its id
UpsertMapping(store, seq, overrideName, agentName) ==
  IF GetMapping(store, overrideName) # <<>>
  THEN [rows |-> {IF m.overrideName = overrideName
                  THEN [m EXCEPT !.agentName = agentName]
                  ELSE m : m \in store},
        seq  |-> seq + 1]
  ELSE [rows |-> store \cup {AgentMapping(seq + 1, overrideName, agentName,
                                          FALSE)},
        seq  |-> seq + 1]

\* Variant: the override name is not looked up in WxCC
OverrideExistsUnchecked(containers, overrideName) == TRUE

\* mappingService.validateOverrideExists on the containers its read returned
OverrideExists(containers, overrideName) ==
  overrideName \in AgentNames(AgentsOf(containers))

\* A caller may start a call when it has none in flight
MapIdle(p) == mapCall[p].pc \in {"idle", "done"}

MapFail(c, err) == [c EXCEPT !.pc = "done", !.error = err]

\* One step of the call of p: its record and the table after the step
MapStep(p, c, rows, seq) ==
  /\ mapCall' = [mapCall EXCEPT ![p] = c]
  /\ mappings' = rows
  /\ dbSeq' = seq
  /\ UNCHANGED <<container, now, calls, view, wxcc>>

----------------------------------------------------------------------------
(* overrideService.getAllContainersWithAgents, one awaited request at a    *)
(* time: the list request, then the detail request of each listed          *)
(* container in turn.  reading names the caller the result goes to.        *)

\* The call issues the list request of a read and awaits its answer
BeginRead(c, reading) ==
  [c EXCEPT !.pc = "list", !.reading = reading, !.containers = <<>>,
            !.down = {}, !.next = 0]

\* Variant: one failed detail request fails the whole call
AfterDetailRethrowing(c, cont, ok, clock) ==
  IF ok
  THEN [c EXCEPT !.containers = Append(@, ContainerWithAgents(cont, clock)),
                 !.next = @ + 1]
  ELSE MapFail([c EXCEPT !.down = @ \cup {cont.id}],
               Failure("UpstreamReadFailed", "Failed to fetch container"))

\* The body of the loop of getAllContainersWithAgents once the detail
\* request of container cont is answered: a failure is logged and skipped
AfterDetail(c, cont, ok, clock) ==
  IF ok
  THEN [c EXCEPT !.containers = Append(@, ContainerWithAgents(cont, clock)),
                 !.next = @ + 1]
  ELSE [c EXCEPT !.down = @ \cup {cont.id}, !.next = @ + 1]

\* The requests whose outcome enters the result of the call: those of the
\* read just finished
ReadIo(c, listOk) ==
  <<[listOk |-> listOk, down |-> c.down, getOk |-> TRUE]>>

\* What the caller of getWxccAgentByOverrideName does with the agent:
\* validateWorkingHoursActivation rejects a missing one and otherwise calls
\* the schedule validator, whose date checks read the clock and whose GET is
\* awaited next; for the response the agent is stored, before the UPDATE in
\* updateWorkingHours (241) and after the upsert in createOrUpdateMapping
AfterAgentLookup(c, list, listOk, clock) ==
  LET agent == GetWxccAgentByOverrideName(listOk, c.containers,
                                          c.overrideName)
  IN  IF c.reading = "context"
      THEN IF c.op = "createMapping"
           THEN [c EXCEPT !.pc = "done", !.context = agent, !.status = 200]
           ELSE [c EXCEPT !.pc = "before", !.context = agent]
      ELSE LET c1 == [c EXCEPT !.io = ReadIo(c, listOk), !.target = agent,
                               !.at = clock]
               v  == ValidateWorkingHoursActivation(agent, list, TRUE,
                                                    c.overrideName, clock)
           IN  IF agent # <<>>
               THEN [c1 EXCEPT !.pc = "scan"]
               ELSE IF ~v.isValid
               THEN [c1 EXCEPT !.pc = "done", !.validated = TRUE,
                               !.validation = v.errors,
                               !.error = ValidationFailure(v.errors)]
               ELSE [BeginRead(c1, "context") EXCEPT !.validated = TRUE]

\* The list request failed: getAllContainersWithAgents rethrows.
\* getAllMappings rethrows as well, getWxccAgentByOverrideName returns null,
\* and the handler of createMapping answers 500
ReadThrew(c, list, clock) ==
  CASE c.reading \in {"lookup", "context"} ->
         AfterAgentLookup(c, list, FALSE, clock)
    [] c.reading = "exists" ->
         [MapFail([c EXCEPT !.io = ReadIo(c, FALSE)],
                  Failure("UpstreamReadFailed", "Failed to list containers"))
            EXCEPT !.status = 500]
    [] OTHER ->
         MapFail([c EXCEPT !.io = ReadIo(c, FALSE)],
                 Failure("UpstreamReadFailed", "Failed to list containers"))

\* getAllContainersWithAgents returned c.containers to its caller, which
\* runs on to its next await
ReadDone(c, list, clock) ==
  CASE c.reading \in {"lookup", "context"} ->
         AfterAgentLookup(c, list, TRUE, clock)
    [] c.reading = "exists" ->
         IF ~OverrideExists(c.containers, c.overrideName)
         THEN [MapFail([c EXCEPT !.io = ReadIo(c, TRUE)],
                       Failure("OverrideNotFound",
                               "Override name not found in WxCC"))
                 EXCEPT !.status = 404]
         ELSE [c EXCEPT !.pc = "existing", !.io = ReadIo(c, TRUE)]
    [] c.reading = "mappings" ->
         [c EXCEPT !.pc = "select", !.io = ReadIo(c, TRUE),
                   !.agents = AgentsOf(c.containers),
                   !.names = AgentNames(AgentsOf(c.containers))]
    [] OTHER ->
         [c EXCEPT !.pc = "done", !.io = ReadIo(c, TRUE),
                   !.returned = c.containers]

\* The list request is answered; the detail request of the first listed
\* container is issued
AfterList(c, list, listOk, clock) ==
  IF ~listOk THEN ReadThrew(c, list, clock)
  ELSE IF list = <<>> THEN ReadDone(c, list, clock)
  ELSE [c EXCEPT !.pc = "detail", !.next = 1,
                 !.io = IF c.reading = "context" THEN @ ELSE ReadIo(c, TRUE)]

\* wxccApiClient.listOverrideContainers is answered to a call that awaits it
ListOverrideContainers(p, listOk) ==
  /\ mapCall[p].pc = "list"
  /\ MapStep(p, AfterList(mapCall[p], wxcc, listOk, now), mappings, dbSeq)

\* wxccApiClient.getOverrideContainerById is answered for the next listed
\* container; after the last one the read returns
GetOverrideContainerById(p, ok) ==
  /\ mapCall[p].pc = "detail"
  /\ LET c  == mapCall[p]
         c1 == AfterDetail(c, wxcc[c.next], ok, now)
     IN  MapStep(p, IF c1.pc = "detail" /\ c1.next > Len(wxcc)
                    THEN ReadDone(c1, wxcc, now) ELSE c1,
                 mappings, dbSeq)

----------------------------------------------------------------------------
(* The operations of the mapping service, one awaited request at a time    *)

\* mappingService.getAllMappings up to the answer of the list request
GetAllMappings(p, listOk) ==
  /\ MapIdle(p)
  /\ MapStep(p, AfterList(BeginRead([IdleMapCall EXCEPT
                                       !.op = "getAllMappings"],
                                    "mappings"),
                          wxcc, listOk, now),
             mappings, dbSeq)

\* getAllMappings line 35: the table is read and the responses are built;
\* the cleanup is requested only for a non-empty list of names
SelectMappings(p) ==
  /\ mapCall[p].pc = "select"
  /\ LET c == mapCall[p]
     IN  MapStep(p, [c EXCEPT !.pc = IF c.names = {} THEN "done"
                                     ELSE "cleanup",
                              !.responses = MappingResponses(mappings,
                                                             c.agents)],
                 mappings, dbSeq)

\* getAllMappings line 63: the DELETE of cleanupOrphanedMappings runs
CleanupOrphans(p) ==
  /\ mapCall[p].pc = "cleanup"
  /\ LET c    == mapCall[p]
         rows == CleanupOrphanedMappings(mappings, c.names)
     IN  MapStep(p, [c EXCEPT !.pc = "done",
                              !.changes = Cardinality(mappings \ rows)],
                 rows, dbSeq)

\* mappingService.updateWorkingHours up to the answer of getMapping (176);
\* an activation goes on to validateWorkingHoursActivation, a deactivation
\* to getWxccAgentByOverrideName (241)
UpdateWorkingHours(p, overrideName, workingHoursActive) ==
  /\ MapIdle(p)
  /\ LET existing == GetMapping(mappings, overrideName)
         c == [IdleMapCall EXCEPT
                 !.op = "updateWorkingHours", !.overrideName = overrideName,
                 !.workingHoursActive = workingHoursActive,
                 !.found = existing]
     IN  IF existing = <<>>
         THEN MapStep(p, MapFail(c, Failure("MappingNotFound",
                                            "No mapping found")),
                      mappings, dbSeq)
         ELSE MapStep(p, BeginRead(c, IF workingHoursActive
                                      THEN "lookup" ELSE "context"),
                      mappings, dbSeq)

\* validateWorkingHoursActivation: the vendor answers the validator's GET of
\* the override's container; a valid activation goes on to
\* getWxccAgentByOverrideName (241)
ActivationScan(p, getOk) ==
  /\ mapCall[p].pc = "scan"
  /\ LET io == [mapCall[p].io[1] EXCEPT !.getOk = getOk]
         c  == [mapCall[p] EXCEPT !.io = <<io>>]
         v  == ValidateWorkingHoursActivation(c.target, wxcc, getOk,
                                              c.overrideName, c.at)
     IN  IF ~v.isValid
         THEN MapStep(p, [c EXCEPT !.pc = "done", !.validated = TRUE,
                                   !.validation = v.errors,
                                   !.error = ValidationFailure(v.errors)],
                      mappings, dbSeq)
         ELSE MapStep(p, [BeginRead(c, "context") EXCEPT !.validated = TRUE],
                      mappings, dbSeq)

\* createOrUpdateMapping line 108: the getMapping whose row is only logged
SelectExisting(p) ==
  /\ mapCall[p].pc = "existing"
  /\ MapStep(p, [mapCall[p] EXCEPT !.pc = "before",
                                   !.found = GetMapping(mappings,
                                               mapCall[p].overrideName)],
             mappings, dbSeq)

\* The getMapping at the head of databaseService.upsertMapping (258) and
\* databaseService.updateWorkingHours (329), whose row is only logged
DbSelectBefore(p) ==
  /\ mapCall[p].pc = "before"
  /\ MapStep(p, [mapCall[p] EXCEPT !.pc = IF mapCall[p].op = "createMapping"
                                          THEN "upsert" ELSE "update"],
             mappings, dbSeq)

\* databaseService.updateWorkingHours: the UPDATE runs on the table as it is
\* by then; when it changes no row the database service returns null, which
\* mappingService.updateWorkingHours (257-265) turns into a failure
DbUpdate(p) ==
  /\ mapCall[p].pc = "update"
  /\ LET c   == mapCall[p]
         hit == GetMapping(mappings, c.overrideName) # <<>>
     IN  IF hit
         THEN MapStep(p, [c EXCEPT !.pc = "readback", !.changes = 1],
                      DbUpdateWorkingHours(mappings, c.overrideName,
                                           c.workingHoursActive),
                      dbSeq)
         ELSE IF c.op = "updateWorkingHours"
         THEN MapStep(p, MapFail(c, Failure("UpdateFailed",
                        "Failed to update working hours status in database")),
                      mappings, dbSeq)
         ELSE MapStep(p, [c EXCEPT !.pc = "done"], mappings, dbSeq)

\* databaseService.upsertMapping: the INSERT ... ON CONFLICT runs
DbUpsert(p) ==
  /\ mapCall[p].pc = "upsert"
  /\ LET c == mapCall[p]
         u == UpsertMapping(mappings, dbSeq, c.overrideName, c.agentName)
     IN  MapStep(p, [c EXCEPT !.pc = "readback", !.changes = 1],
                 u.rows, u.seq)

\* The getMapping that reads the written row back; the row may be gone.
\* createOrUpdateMapping goes on to getWxccAgentByOverrideName (114)
DbReadBack(p) ==
  /\ mapCall[p].pc = "readback"
  /\ LET c   == mapCall[p]
         row == GetMapping(mappings, c.overrideName)
         c1  == [c EXCEPT !.returned = row]
     IN  IF row # <<>>
         THEN MapStep(p, IF c.op = "createMapping"
                         THEN BeginRead(c1, "context")
                         ELSE [c1 EXCEPT !.pc = "done"],
                      mappings, dbSeq)
         ELSE IF c.op = "updateWorkingHours"
         THEN MapStep(p, MapFail(c1, Failure("UpdateFailed",
                        "Failed to update working hours status in database")),
                      mappings, dbSeq)
         ELSE IF c.op = "databaseService.updateWorkingHours"
         THEN MapStep(p, [c1 EXCEPT !.pc = "done"], mappings, dbSeq)
         ELSE MapStep(p, [MapFail(c1, Failure("UpsertFailed",
                                   "Failed to create/update mapping"))
                            EXCEPT !.status = IF c.op = "createMapping"
                                              THEN 500 ELSE 0],
                      mappings, dbSeq)

MapTick ==
  /\ now < ValNow
  /\ now' = now + 1
  /\ UNCHANGED <<container, calls, view, mapVars>>

----------------------------------------------------------------------------
(* The mapping service under callers whose calls interleave at the awaits *)

InitMapping ==
  /\ container = MakeContainer(2, "CET", <<>>)
  /\ now = 0
  /\ calls = [p \in Procs |-> IdleCall]
  /\ view = IdleView
  /\ wxcc \in {l \in WxccLists :
                 /\ l[1].overrides[1].startDateTime = IsoStr(0)
                 /\ l[1].overrides[1].workingHours}
  /\ mappings \in {s \in MapStores :
                    /\ AgentMapping(1, "a", "Ann", FALSE) \in s
                    /\ GetMapping(s, "d") # <<>>}
  /\ mapCall = [p \in Procs |-> IdleMapCall]
  /\ dbSeq = 3

\* Each caller makes one call
NextMapping ==
  \/ \E p \in Procs, listOk \in BOOLEAN :
       mapCall[p].pc = "idle" /\ GetAllMappings(p, listOk)
  \/ \E p \in Procs : SelectMappings(p)
  \/ \E p \in Procs : CleanupOrphans(p)
  \/ \E p \in Procs, i \in 1..Len(NameOrder), workingHoursActive \in BOOLEAN :
       /\ mapCall[p].pc = "idle"
       /\ UpdateWorkingHours(p, NameOrder[i], workingHoursActive)
  \/ \E p \in Procs, listOk \in BOOLEAN : ListOverrideContainers(p, listOk)
  \/ \E p \in Procs, ok \in BOOLEAN : GetOverrideContainerById(p, ok)
  \/ \E p \in Procs, getOk \in BOOLEAN : ActivationScan(p, getOk)
  \/ \E p \in Procs : DbSelectBefore(p)
  \/ \E p \in Procs : DbUpdate(p)
  \/ \E p \in Procs : DbReadBack(p)
  \/ MapTick

SpecMapping == InitMapping /\ [][NextMapping]_vars

----------------------------------------------------------------------------
(* Creating and renaming mappings: POST /api/overrides/map                 *)

\* Largest value of sqlite_sequence for the mapping table
MaxId == 4

InitCreate ==
  /\ container = MakeContainer(2, "CET", <<>>)
  /\ now = 0
  /\ calls = [p \in Procs |-> IdleCall]
  /\ view = IdleView
  /\ wxcc \in {l \in WxccLists :
                 /\ l[1].overrides[1].startDateTime = IsoStr(0)
                 /\ l[1].overrides[1].endDateTime = IsoStr(MinuteLen)
                 /\ l[1].overrides[2].workingHours}
  /\ mappings \in MapStores
  /\ mapCall = [p \in Procs |-> IdleMapCall]
  /\ dbSeq = 3

\* The handler createMapping up to its first await: the required-field and
\* blank checks, then mappingService.createOrUpdateMapping calls
\* validateOverrideExists; the handler's catch block answers 404 or 500
CreateMapping(p, overrideName, agentName) ==
  /\ MapIdle(p)
  /\ dbSeq < MaxId
  /\ LET clean == Trim(agentName)
         c     == [IdleMapCall EXCEPT
                     !.op = "createMapping", !.overrideName = overrideName,
                     !.agentName = clean, !.at = now, !.before = mappings]
     IN  IF agentName = "" \/ clean = ""
         THEN MapStep(p, [MapFail(c, Failure("InvalidRequest",
                                             "Validation error"))
                            EXCEPT !.status = 400],
                      mappings, dbSeq)
         ELSE MapStep(p, BeginRead(c, "exists"), mappings, dbSeq)

NextCreate ==
  \/ \E i \in 1..Len(NameOrder), agentName \in AgentNameInputs :
       CreateMapping(SeqProc, NameOrder[i], agentName)
  \/ \E p \in Procs, listOk \in BOOLEAN : ListOverrideContainers(p, listOk)
  \/ \E p \in Procs, ok \in BOOLEAN : GetOverrideContainerById(p, ok)
  \/ \E p \in Procs : SelectExisting(p)
  \/ \E p \in Procs : DbSelectBefore(p)
  \/ \E p \in Procs : DbUpsert(p)
  \/ \E p \in Procs : DbReadBack(p)
  \/ MapTick

SpecCreate == InitCreate /\ [][NextCreate]_vars

----------------------------------------------------------------------------
(* The mapping table by itself: DatabaseService on wxcc_agent_mappings     *)

DbNames == {"a", "b", "c"}

DbAgentNames == {"Ann", "Bob"}

InitDb ==
  /\ container = MakeContainer(2, "CET", <<>>)
  /\ now = 0
  /\ calls = [p \in Procs |-> IdleCall]
  /\ view = IdleView
  /\ wxcc = <<>>
  /\ mappings = {}
  /\ mapCall = [p \in Procs |-> IdleMapCall]
  /\ dbSeq = 0

\* databaseService.upsertMapping up to the answer of its first getMapping,
\* whose row is only logged
DbUpsertMapping(p, overrideName, agentName) ==
  /\ MapIdle(p)
  /\ dbSeq < MaxId
  /\ MapStep(p, [IdleMapCall EXCEPT
                   !.op = "upsertMapping", !.pc = "upsert",
                   !.overrideName = overrideName, !.agentName = agentName,
                   !.found = GetMapping(mappings, overrideName),
                   !.before = mappings],
             mappings, dbSeq)

\* databaseService.updateWorkingHours up to the answer of its first
\* getMapping, whose row is only logged
DbSetWorkingHours(p, overrideName, workingHoursActive) ==
  /\ MapIdle(p)
  /\ MapStep(p, [IdleMapCall EXCEPT
                   !.op = "databaseService.updateWorkingHours",
                   !.pc = "update",
                   !.overrideName = overrideName,
                   !.workingHoursActive = workingHoursActive,
                   !.found = GetMapping(mappings, overrideName),
                   !.before = mappings],
             mappings, dbSeq)

\* databaseService.cleanupOrphanedMappings: returns result.changes
DbCleanupOrphanedMappings(p, activeOverrideNames) ==
  /\ MapIdle(p)
  /\ LET rows == CleanupOrphanedMappings(mappings, activeOverrideNames)
     IN  MapStep(p, [IdleMapCall EXCEPT
                       !.op = "cleanupOrphanedMappings", !.pc = "done",
                       !.names = activeOverrideNames,
                       !.before = mappings,
                       !.changes = Cardinality(mappings \ rows)],
                 rows, dbSeq)

NextDb ==
  \/ \E overrideName \in DbNames, agentName \in DbAgentNames :
       DbUpsertMapping(SeqProc, overrideName, agentName)
  \/ \E overrideName \in DbNames, workingHoursActive \in BOOLEAN :
       DbSetWorkingHours(SeqProc, overrideName, workingHoursActive)
  \/ \E activeOverrideNames \in SUBSET DbNames :
       DbCleanupOrphanedMappings(SeqProc, activeOverrideNames)
  \/ \E p \in Procs : DbUpsert(p)
  \/ \E p \in Procs : DbUpdate(p)
  \/ \E p \in Procs : DbReadBack(p)

SpecDb == InitDb /\ [][NextDb]_vars

----------------------------------------------------------------------------
(* Toggling working hours of mapped overrides while WxCC stays as it is    *)

InitToggle ==
  /\ container = MakeContainer(2, "CET", <<>>)
  /\ now = 0
  /\ calls = [p \in Procs |-> IdleCall]
  /\ view = IdleView
  /\ wxcc \in WxccLists
  /\ mappings = {AgentMapping(1, "a", "Ann", FALSE),
                 AgentMapping(2, "b", "Bea", FALSE),
                 AgentMapping(3, "c", "Cy", FALSE)}
  /\ mapCall = [p \in Procs |-> IdleMapCall]
  /\ dbSeq = 3

NextToggle ==
  \/ \E i \in 1..Len(NameOrder), workingHoursActive \in BOOLEAN :
       UpdateWorkingHours(SeqProc, NameOrder[i], workingHoursActive)
  \/ \E p \in Procs, listOk \in BOOLEAN : ListOverrideContainers(p, listOk)
  \/ \E p \in Procs, ok \in BOOLEAN : GetOverrideContainerById(p, ok)
  \/ \E p \in Procs, getOk \in BOOLEAN : ActivationScan(p, getOk)
  \/ \E p \in Procs : DbSelectBefore(p)
  \/ \E p \in Procs : DbUpdate(p)
  \/ \E p \in Procs : DbReadBack(p)
  \/ MapTick

SpecToggle == InitToggle /\ [][NextToggle]_vars

----------------------------------------------------------------------------
(* Reading all containers with their agents                                *)

InitList ==
  /\ container = MakeContainer(2, "CET", <<>>)
  /\ now = 0
  /\ calls = [p \in Procs |-> IdleCall]
  /\ view = IdleView
  /\ wxcc \in WxccLists
  /\ mappings = {}
  /\ mapCall = [p \in Procs |-> IdleMapCall]
  /\ dbSeq = 0

\* overrideService.getAllContainersWithAgents up to the answer of the list
\* request, whose failure is rethrown
ListContainersWithAgents(p, listOk) ==
  /\ MapIdle(p)
  /\ MapStep(p, AfterList(BeginRead([IdleMapCall EXCEPT
                                       !.op = "getAllContainersWithAgents",
                                       !.before = mappings],
                                    "containers"),
                          wxcc, listOk, now),
             mappings, dbSeq)

\* The clock advances while a read is under way, past the end of every
\* window of WxccLists
ListTick ==
  /\ now < StatusMaxTick
  /\ now' = now + 1
  /\ UNCHANGED <<container, calls, view, mapVars>>

NextList ==
  \/ \E listOk \in BOOLEAN : ListContainersWithAgents(SeqProc, listOk)
  \/ \E p \in Procs, ok \in BOOLEAN : GetOverrideContainerById(p, ok)
  \/ ListTick

SpecList == InitList /\ [][NextList]_vars

----------------------------------------------------------------------------
(* Properties.  Windows are compared on the instants the strings denote.   *)

Parsable(s) == s.fmt \in {"wire", "iso"}

WindowParsable(o) == Parsable(o.startDateTime) /\ Parsable(o.endDateTime)

\* Strict overlap: each window starts before the other one ends
WindowsOverlap(x, y) ==
  /\ WindowParsable(x)
  /\ WindowParsable(y)
  /\ x.startDateTime.t < y.endDateTime.t
  /\ y.startDateTime.t < x.endDateTime.t

\* The windows meet at an endpoint of the candidate
WindowsTouch(upd, o) ==
  /\ WindowParsable(upd)
  /\ WindowParsable(o)
  /\ \/ upd.endDateTime.t = o.startDateTime.t
     \/ upd.startDateTime.t = o.endDateTime.t

Fields(errors) == {errors[i].field : i \in 1..Len(errors)}

EntryOf(c, n) == c.overrides[CHOOSE i \in 1..Len(c.overrides) : c.overrides[i].name = n]

\* The container validation was given: the one fetched for the conflict scan
\* of an engaged candidate; no container is read for a disengaged one
Seen(c) == IF c.snapshot = <<>> THEN container ELSE c.snapshot[1]

\* C1: validation emits a schedule error iff the candidate is engaged and
\* some other entry of the container is engaged with a window overlapping
\* the candidate's; disengaged entries and the target itself never conflict,
\* and a disengaged candidate is never checked.
C1_ScheduleErrorIff ==
  \A p \in Procs :
    calls[p].validated =>
      LET upd == calls[p].updateData[1]
      IN  ("schedule" \in Fields(calls[p].validation))
            <=> /\ upd.workingHours
                /\ \E i \in 1..Len(Seen(calls[p]).overrides) :
                     /\ Seen(calls[p]).overrides[i].name # calls[p].agentId
                     /\ Seen(calls[p]).overrides[i].workingHours
                     /\ WindowsOverlap(upd, Seen(calls[p]).overrides[i])

\* an engaged candidate for an entry of the container overlaps its own old
\* window and a disengaged entry's window, and an engaged entry's as well:
\* only the last one is reported
C1_Witness ==
  \E p \in Procs :
    /\ calls[p].validated
    /\ calls[p].agentId = "a"
    /\ calls[p].updateData[1].workingHours
    /\ WindowsOverlap(calls[p].updateData[1], Seen(calls[p]).overrides[1])
    /\ Seen(calls[p]).overrides[1].workingHours
    /\ WindowsOverlap(calls[p].updateData[1], Seen(calls[p]).overrides[2])
    /\ Seen(calls[p]).overrides[2].workingHours
    /\ "schedule" \in Fields(calls[p].validation)

\* C2 (as claimed): a call whose target is not in the container fails with
\* EntryNotFound, whatever the payload, and issues no PUT.
C2_MissingEntryAlwaysNotFound ==
  \A p \in Procs :
    (calls[p].pc = "done" /\ calls[p].agentId \notin Names(container))
      => /\ calls[p].error.kind = "EntryNotFound"
         /\ ~calls[p].putIssued

\* C3: when validation of the candidate is invalid, the call fails with
\* "Validation failed" carrying the message of every collected error, no PUT
\* is issued and the vendor-side container stays as it was.
C3_InvalidNeverWritten ==
  [][\A p \in Procs :
       (~calls[p].validated /\ calls'[p].validated) =>
         LET c == calls'[p]
             v == ValidateAgentScheduleUpdate(container, c.agentId,
                                              c.updateData[1], c.startedAt)
         IN  ~v.isValid =>
               /\ c.pc = "done"
               /\ c.error.kind = "ValidationFailed"
               /\ c.error.text = "Validation failed"
               /\ Len(c.error.messages) = Len(v.errors)
               /\ \A i \in 1..Len(v.errors) :
                    c.error.messages[i][1] = v.errors[i].message
               /\ ~c.putIssued
               /\ c.wroteAt = 0
               /\ container' = container]_vars

C3_Witness ==
  \E p \in Procs :
    /\ calls[p].pc = "done"
    /\ calls[p].error.kind = "ValidationFailed"
    /\ Len(calls[p].error.messages) = 2
    /\ ~calls[p].putIssued

\* C4: the submitted payload keeps the number and order of the entries,
\* every entry but the target unchanged, the target at its index with its
\* name and the candidate's engaged flag, and the fetched container's id,
\* name, description and creation time (version and timezone too when the
\* fetched container has them).
C4_PayloadFrame ==
  \A p \in Procs :
    calls[p].payload # <<>> =>
      LET f   == calls[p].fullContainer[1]
          pl  == calls[p].payload[1]
          upd == calls[p].updateData[1]
      IN  /\ Len(pl.overrides) = Len(f.overrides)
          /\ \A i \in 1..Len(f.overrides) :
               /\ pl.overrides[i].name = f.overrides[i].name
               /\ f.overrides[i].name # calls[p].agentId
                    => pl.overrides[i] = f.overrides[i]
               /\ f.overrides[i].name = calls[p].agentId
                    => pl.overrides[i].workingHours = upd.workingHours
          /\ pl.id = f.id
          /\ pl.name = f.name
          /\ pl.description = f.description
          /\ pl.createdTime = f.createdTime
          /\ f.version # 0 => pl.version = f.version
          /\ f.timezone # NoTimezone => pl.timezone = f.timezone

\* the first entry of two is rewritten with new values and the PUT is stored
C4_Witness ==
  \E p \in Procs :
    /\ calls[p].payload # <<>>
    /\ calls[p].wroteAt > 0
    /\ calls[p].agentId = calls[p].fullContainer[1].overrides[1].name
    /\ Len(calls[p].fullContainer[1].overrides) = 2
    /\ calls[p].payload[1].overrides[1] # calls[p].fullContainer[1].overrides[1]

\* The second writer q took its snapshot before the first writer p wrote,
\* the two calls update different entries and both PUTs were answered normally
Race(p, q) ==
  /\ p # q
  /\ calls[p].agentId # calls[q].agentId
  /\ calls[p].putAnswer = "ok"
  /\ calls[q].putAnswer = "ok"
  /\ calls[p].wroteAt > 0
  /\ calls[q].wroteAt > calls[p].wroteAt
  /\ calls[q].readAt < calls[p].wroteAt

\* C5: when two calls for different entries both read the container before
\* either writes, both PUTs are stored, updateOverride returns its updated
\* entry to both callers, and after the second write the container holds
\* for the first caller's entry what the second caller had read, not what
\* the first caller wrote.
C5_LostUpdate ==
  \A p, q \in Procs :
    Race(p, q) =>
      /\ calls[p].returned = <<EntryOf(calls[p].payload[1], calls[p].agentId)>>
      /\ calls[q].returned = <<EntryOf(calls[q].payload[1], calls[q].agentId)>>
      /\ container = calls[q].payload[1]
      /\ EntryOf(container, calls[p].agentId)
           = EntryOf(calls[q].fullContainer[1], calls[p].agentId)

\* both calls have returned without error and the first caller's change,
\* which it was handed back as the result, is gone from the container
C5_Witness ==
  \E p, q \in Procs :
    /\ Race(p, q)
    /\ calls[p].pc = "done" /\ calls[p].error.kind = "none"
    /\ calls[q].pc = "done" /\ calls[q].error.kind = "none"
    /\ EntryOf(container, calls[p].agentId) # calls[p].returned[1]

\* C6 (as claimed): under sequential updates from a conflict-free container
\* no two engaged entries of the container ever have overlapping windows.
C6_NeverConflicting ==
  \A i, j \in 1..Len(container.overrides) :
    (i # j /\ container.overrides[i].workingHours
           /\ container.overrides[j].workingHours)
      => ~WindowsOverlap(container.overrides[i], container.overrides[j])


\* The engaged flag of an agent record
Engaged(a) == a.workingHours

\* C7 (as claimed): for parsable timestamps the label is inactive iff not
\* engaged, scheduled iff engaged and now < start, expired iff engaged and
\* now > end, active iff engaged and start <= now <= end.
C7_StatusTable ==
  view.pc # "idle" =>
    \A i \in 1..Len(view.agents) :
      LET a     == view.agents[i]
          t     == view.statusAt
          start == a.startDateTime.t
          end   == a.endDateTime.t
      IN  WindowParsable(a) =>
            /\ (a.status = "inactive") <=> ~Engaged(a)
            /\ (a.status = "scheduled") <=> (Engaged(a) /\ t < start)
            /\ (a.status = "expired") <=> (Engaged(a) /\ t > end)
            /\ (a.status = "active") <=> (Engaged(a) /\ start <= t /\ t <= end)

\* C7 (amended): as above, except that expired is returned iff the entry is
\* engaged, now > end and now is not before start; one label is returned for
\* every input.
C7_StatusTableAmended ==
  view.pc # "idle" =>
    \A i \in 1..Len(view.agents) :
      LET a     == view.agents[i]
          t     == view.statusAt
          start == a.startDateTime.t
          end   == a.endDateTime.t
      IN  WindowParsable(a) =>
            /\ a.status \in {"inactive", "scheduled", "expired", "active"}
            /\ (a.status = "inactive") <=> ~Engaged(a)
            /\ (a.status = "scheduled") <=> (Engaged(a) /\ t < start)
            /\ (a.status = "expired")
                 <=> (Engaged(a) /\ t > end /\ ~(t < start))
            /\ (a.status = "active") <=> (Engaged(a) /\ start <= t /\ t <= end)

\* an engaged entry whose window ends before it starts, read in between
C7_Witness ==
  /\ view.pc # "idle"
  /\ \E i \in 1..Len(view.agents) :
       LET a == view.agents[i]
       IN  /\ WindowParsable(a)
           /\ Engaged(a)
           /\ a.endDateTime.t < view.statusAt
           /\ view.statusAt < a.startDateTime.t
           /\ a.status = "scheduled"

\* C8 (as claimed): the live flag is true iff the entry is engaged and
\* start <= now <= end, both endpoints included; it is false for every
\* disengaged entry.
C8_LiveFlag ==
  view.pc = "done" =>
    \A i \in 1..Len(view.response) :
      LET a == view.response[i]
          t == view.liveAt
      IN  a.isCurrentlyActive
            <=> /\ Engaged(a)
                /\ WindowParsable(a)
                /\ a.startDateTime.t <= t
                /\ t <= a.endDateTime.t

\* C9: a candidate window that shares only a boundary instant with an engaged
\* entry's window is not reported as conflicting with that entry.
C9_TouchingIsNoConflict ==
  \A p \in Procs :
    calls[p].validated =>
      \A i \in 1..Len(Seen(calls[p]).overrides) :
        WindowsTouch(calls[p].updateData[1], Seen(calls[p]).overrides[i]) =>
          \A k \in 1..Len(calls[p].validation) :
            calls[p].validation[k].conflictingAgentId
              # Seen(calls[p]).overrides[i].name

\* an engaged candidate that ends where the only other engaged entry starts
\* passes validation
C9_Witness ==
  \E p \in Procs :
    LET upd == calls[p].updateData[1]
        o   == Seen(calls[p]).overrides[2]
    IN  /\ calls[p].validated
        /\ calls[p].agentId = "a"
        /\ upd.workingHours
        /\ o.workingHours
        /\ WindowParsable(upd) /\ WindowParsable(o)
        /\ upd.startDateTime.t < upd.endDateTime.t
        /\ upd.endDateTime.t = o.startDateTime.t
        /\ o.startDateTime.t < o.endDateTime.t
        /\ calls[p].validation = <<>>
        /\ calls[p].pc = "fetch"

\* C10 (as claimed): every candidate with start >= end, start = end
\* included, gets a startDateTime error.
C10_StartNotBeforeEndRejected ==
  \A p \in Procs :
    calls[p].validated =>
      LET upd == calls[p].updateData[1]
      IN  (WindowParsable(upd) /\ upd.startDateTime.t >= upd.endDateTime.t)
            => "startDateTime" \in Fields(calls[p].validation)

\* C11 (as claimed): when the candidate's start or end cannot be parsed,
\* validation returns exactly one error, tagged dateTime, the result is
\* invalid, and the container is not fetched for the conflict scan (so the
\* validation cannot fail on that read either).
C11_UnparsableGetsDateTimeError ==
  \A p \in Procs :
    (calls[p].pc \notin {"idle", "validate"}
       /\ ~WindowParsable(calls[p].updateData[1]))
      => /\ calls[p].validated
         /\ Fields(calls[p].validation) = {"dateTime"}
         /\ calls[p].error.kind = "ValidationFailed"

\* The field tags of an error list, in list order
FieldSeq(errors) == [i \in 1..Len(errors) |-> errors[i].field]

\* An engaged entry other than the target overlaps the engaged candidate
EngagedConflict(c, agentId, upd) ==
  /\ upd.workingHours
  /\ \E i \in 1..Len(c.overrides) :
       /\ c.overrides[i].name # agentId
       /\ c.overrides[i].workingHours
       /\ WindowsOverlap(upd, c.overrides[i])

\* C12 (as claimed): for a parsable candidate the error list is, in this
\* order, a startDateTime error iff start >= end, an endDateTime error iff
\* end is before now (the clock read when the call starts), a schedule error
\* iff an engaged conflict exists in the container validation fetched, each
\* independently of the others; the result is valid iff the list is empty.
C12_AccumulatedErrors ==
  \A p \in Procs :
    (calls[p].validated /\ WindowParsable(calls[p].updateData[1])) =>
      LET upd == calls[p].updateData[1]
      IN  /\ FieldSeq(calls[p].validation)
               = (IF upd.startDateTime.t >= upd.endDateTime.t
                  THEN <<"startDateTime">> ELSE <<>>)
                 \o (IF upd.endDateTime.t < calls[p].startedAt
                     THEN <<"endDateTime">> ELSE <<>>)
                 \o (IF EngagedConflict(Seen(calls[p]), calls[p].agentId, upd)
                     THEN <<"schedule">> ELSE <<>>)
          /\ (calls[p].error.kind = "none") <=> (calls[p].validation = <<>>)

\* C13 (as claimed): an entry whose start or end is malformed, engaged or
\* not, is shown with status inactive and with the live flag false.
C13_MalformedDegradesToInactive ==
  view.pc = "done" =>
    \A i \in 1..Len(view.response) :
      ~WindowParsable(view.response[i]) =>
        /\ view.response[i].status = "inactive"
        /\ ~view.response[i].isCurrentlyActive

\* The instant of a timestamp string cut down to its minute
MinuteOf(s) == s.t - (s.t % MinuteLen)

\* C14 (as claimed): after every successful update the entry of the container
\* carries the candidate's start and end in wire format, at the same instants
\* cut down to the minute, and so does the entry handed back to the caller.
C14_StoredNormalized ==
  \A p \in Procs :
    (calls[p].pc = "done" /\ calls[p].error.kind = "none") =>
      LET upd == calls[p].updateData[1]
          e   == EntryOf(container, calls[p].agentId)
          r   == calls[p].result[1]
      IN  /\ e.startDateTime = WireStr(MinuteOf(upd.startDateTime))
          /\ e.endDateTime = WireStr(MinuteOf(upd.endDateTime))
          /\ upd.startDateTime.t # NaN
          /\ upd.endDateTime.t # NaN
          /\ r.startDateTime = e.startDateTime
          /\ r.endDateTime = e.endDateTime

\* C15 (as claimed): in every payload built for the PUT, the start and end
\* of every entry, untouched ones included, and the container's last
\* modified time are in wire format.
C15_PayloadWireFormat ==
  \A p \in Procs :
    calls[p].payload # <<>> =>
      LET pl == calls[p].payload[1]
      IN  /\ IsWxccFormat(pl.lastModifiedTime)
          /\ \A i \in 1..Len(pl.overrides) :
               /\ IsWxccFormat(pl.overrides[i].startDateTime)
               /\ IsWxccFormat(pl.overrides[i].endDateTime)

\* C16 (as claimed): every failed update is answered with the status of its
\* kind and never as a success: 400 for a validation failure, 404 for a
\* missing entry, 500 or 502 for a failed vendor read or write, a write whose
\* answer omits the updated entry included.
C16_FailureStatus ==
  \A p \in Procs :
    (calls[p].response # <<>> /\ calls[p].error.kind # "none") =>
      LET r == calls[p].response[1]
          k == calls[p].error.kind
      IN  /\ ~r.success
          /\ k = "ValidationFailed" => r.status = 400
          /\ k = "EntryNotFound" => r.status = 404
          /\ k \in {"UpstreamReadFailed", "UpstreamWriteFailed"}
               => r.status \in {500, 502}

\* C17: one call sends at most one PUT to the vendor; when the PUT fails
\* the call ends with the write failure, has stored nothing, and the payload
\* is not sent again.
C17_AtMostOnePut ==
  \A p \in Procs :
    /\ calls[p].puts <= 1
    /\ calls[p].putAnswer = "fail"
         => /\ calls[p].pc = "done"
            /\ calls[p].error.kind = "UpstreamWriteFailed"
            /\ calls[p].wroteAt = 0

\* a call whose only PUT failed has ended with the write failure
C17_Witness ==
  \E p \in Procs :
    /\ calls[p].putAnswer = "fail"
    /\ calls[p].puts = 1
    /\ calls[p].pc = "done"
    /\ calls[p].error.kind = "UpstreamWriteFailed"

\* The name, engaged flag, start and end of a returned agent
EntryFields(a) == <<a.agentId, a.workingHours, a.startDateTime, a.endDateTime>>

\* C18: when a successful update is sent again unchanged, nothing else having
\* changed the container and the payload's end not having passed meanwhile,
\* the second call succeeds too, returns the same entry (name, engaged flag,
\* start, end) and leaves the container's entries as the first call left them.
C18_Idempotent ==
  LET c1 == calls[SeqProc]
      c2 == calls[RepeatProc]
  IN  (c2.pc = "done"
         /\ ~(Parsable(c2.updateData[1].endDateTime)
                /\ c2.updateData[1].endDateTime.t < c2.startedAt))
        => /\ c2.error.kind = "none"
           /\ EntryFields(c2.result[1]) = EntryFields(c1.result[1])
           /\ c2.fullContainer[1].overrides = c1.payload[1].overrides
           /\ container.overrides = c1.payload[1].overrides

\* an engaged window that changed the entry was stored, time passed, and the
\* repeated call succeeded
C18_Witness ==
  LET c1 == calls[SeqProc]
      c2 == calls[RepeatProc]
  IN  /\ c2.pc = "done"
      /\ c2.error.kind = "none"
      /\ c2.updateData[1].workingHours
      /\ WindowParsable(c2.updateData[1])
      /\ c2.updateData[1].startDateTime.t < c2.updateData[1].endDateTime.t
      /\ EntryOf(c1.fullContainer[1], c1.agentId)
           # EntryOf(c1.payload[1], c1.agentId)
      /\ now > 0

\* The override exists in a container the operation could read
FoundInWxcc(list, io, overrideName) ==
  /\ io.listOk
  /\ \E i \in 1..Len(list) :
       list[i].id \notin io.down /\ overrideName \in Names(list[i])

\* The override's own window, engaged, is acceptable at instant t: start not
\* after end, end not before t, no other engaged entry of its container
\* overlapping it
WindowAcceptable(list, overrideName, t) ==
  \E i \in 1..Len(list) :
    /\ overrideName \in Names(list[i])
    /\ LET e   == EntryOf(list[i], overrideName)
           upd == UpdateAgentRequest(TRUE, e.startDateTime, e.endDateTime)
       IN  /\ WindowParsable(e)
           /\ ~(e.startDateTime.t > e.endDateTime.t)
           /\ ~(e.endDateTime.t < t)
           /\ ~EngagedConflict(list[i], overrideName, upd)

\* The schedule validation of the call accepted the override's window: the
\* override was found in a container that could be read, the validator's
\* own request was answered, and the window was acceptable at the clock of
\* the date checks
Accepted(c) ==
  /\ c.io # <<>>
  /\ FoundInWxcc(wxcc, c.io[1], c.overrideName)
  /\ c.io[1].getOk
  /\ WindowAcceptable(wxcc, c.overrideName, c.at)

\* C19: a call of updateWorkingHours with workingHoursActive = true writes
\* to the mapping table only when its getMapping found a mapping for the
\* override name and the schedule validation of the override's current
\* window passed, and then it sets the flag of that mapping and nothing
\* else; it succeeds only in that case; when the mapping is missing it fails
\* with 'No mapping found', when the validation reports an error it fails
\* with 'Validation failed' and the messages, and in both cases no step of
\* the call changes the table.
C19_ActivationGuarded ==
  [][\A p \in Procs :
       LET c == mapCall[p]
           d == mapCall'[p]
       IN  (d # c /\ d.op = "updateWorkingHours" /\ d.workingHoursActive) =>
             /\ d.changes > c.changes =>
                  /\ d.found # <<>>
                  /\ d.validated
                  /\ Accepted(d)
                  /\ mappings' = {IF m.overrideName = d.overrideName
                                  THEN [m EXCEPT !.workingHoursActive = TRUE]
                                  ELSE m : m \in mappings}
             /\ d.changes = c.changes => mappings' = mappings
             /\ d.pc = "done" =>
                  /\ d.error.kind = "none" => (d.found # <<>> /\ Accepted(d))
                  /\ d.found = <<>> =>
                       (d.error.text = "No mapping found" /\ d.changes = 0)
                  /\ (d.found # <<>> /\ ~Accepted(d)) =>
                       /\ d.error.text = "Validation failed"
                       /\ Len(d.error.messages) = Len(d.validation)
                       /\ Len(d.validation) >= 1
                       /\ d.changes = 0]_vars

\* the flag of an existing mapping went from false to true beside a mapping
\* that stayed as it was
C19_Witness ==
  \E p \in Procs :
    /\ mapCall[p].op = "updateWorkingHours"
    /\ mapCall[p].workingHoursActive
    /\ mapCall[p].pc = "done"
    /\ mapCall[p].error.kind = "none"
    /\ ~mapCall[p].found[1].workingHoursActive
    /\ [mapCall[p].found[1] EXCEPT !.workingHoursActive = TRUE] \in mappings
    /\ Cardinality(mappings) >= 2

\* The override name exists in some container of WxCC
ExistsInWxcc(overrideName) ==
  \E i \in 1..Len(wxcc) : overrideName \in Names(wxcc[i])

\* C20 (as claimed): no step of getAllMappings (nor of a toggle) removes the
\* mapping of an override name that exists in some container of WxCC, also
\* when the detail fetch of a container failed during the run.
C20_CleanupOnlyOrphans ==
  [][\A m \in mappings :
       ExistsInWxcc(m.overrideName) =>
         \E m2 \in mappings' : m2.overrideName = m.overrideName]_vars

\* C21: createOrUpdateMapping changes the mapping table only for an override
\* name that exists in some container of WxCC; for a name found in no
\* container (request well formed, container list readable) it fails with
\* "Override name ... not found in WxCC", answered 404, and the table is
\* left as it was.
C21_CreateOnlyExisting ==
  \A p \in Procs :
    mapCall[p].op = "createMapping" =>
      /\ (mappings # mapCall[p].before \/ mapCall[p].status = 200)
           => ExistsInWxcc(mapCall[p].overrideName)
      /\ ~ExistsInWxcc(mapCall[p].overrideName) =>
           /\ mappings = mapCall[p].before
           /\ (/\ mapCall[p].pc = "done"
               /\ mapCall[p].agentName # ""
               /\ mapCall[p].io # <<>>
               /\ mapCall[p].io[1].listOk) =>
                /\ mapCall[p].error.text = "Override name not found in WxCC"
                /\ mapCall[p].status = 404

\* a well-formed request for a name no container has was answered 404 while
\* the table held other mappings
C21_Witness ==
  \E p \in Procs :
    /\ mapCall[p].op = "createMapping"
    /\ mapCall[p].pc = "done"
    /\ mapCall[p].overrideName = "d"
    /\ mapCall[p].agentName = "Bob"
    /\ mapCall[p].status = 404
    /\ mapCall[p].before # {}
    /\ mappings = mapCall[p].before

\* the rows of an override name in a table
RowsOf(store, overrideName) == {m \in store : m.overrideName = overrideName}

\* the one row of a set, as getMapping returns it
SetToRow(rows) == <<CHOOSE m \in rows : TRUE>>

\* C22: after any sequence of upsertMapping, updateWorkingHours and
\* cleanupOrphanedMappings the table holds at most one mapping per override
\* name; an upsert on an existing name keeps the row's id and
\* workingHoursActive and replaces only the agent name; an upsert on a new
\* name creates a mapping with workingHoursActive = false.
C22_OneRowPerName ==
  /\ \A n \in DbNames : Cardinality(RowsOf(mappings, n)) <= 1
  /\ \A m1, m2 \in mappings : m1.id = m2.id => m1 = m2
  /\ \A p \in Procs :
       (mapCall[p].op = "upsertMapping" /\ mapCall[p].pc # "upsert") =>
         LET n   == mapCall[p].overrideName
             old == RowsOf(mapCall[p].before, n)
             new == RowsOf(mappings, n)
         IN  /\ Cardinality(new) = 1
             /\ \A m \in new : m.agentName = mapCall[p].agentName
             /\ \A m \in new, o \in old :
                  m.id = o.id /\ m.workingHoursActive = o.workingHoursActive
             /\ old = {} => \A m \in new : ~m.workingHoursActive
             /\ \A k \in DbNames \ {n} :
                  RowsOf(mappings, k) = RowsOf(mapCall[p].before, k)
             /\ mapCall[p].pc = "done" => mapCall[p].returned = SetToRow(new)

\* an upsert renamed the agent of a mapping whose flag was on
C22_Witness ==
  \E p \in Procs :
    /\ mapCall[p].op = "upsertMapping"
    /\ mapCall[p].pc = "done"
    /\ \E o \in RowsOf(mapCall[p].before, mapCall[p].overrideName) :
         /\ o.workingHoursActive
         /\ o.agentName # mapCall[p].agentName
    /\ Cardinality(mappings) > 1

\* C23: cleanupOrphanedMappings with a non-empty list deletes exactly the
\* mappings whose override name is not in the list, keeps the others as they
\* were and returns the number deleted; with an empty list it deletes nothing
\* and returns 0.
C23_CleanupExact ==
  \A p \in Procs :
    mapCall[p].op = "cleanupOrphanedMappings" =>
      LET c == mapCall[p]
      IN  IF c.names = {}
          THEN mappings = c.before /\ c.changes = 0
          ELSE /\ mappings = {m \in c.before : m.overrideName \in c.names}
               /\ c.changes
                    = Cardinality({m \in c.before :
                                     m.overrideName \notin c.names})

\* a cleanup with a non-empty list deleted one mapping and kept another
C23_Witness ==
  \E p \in Procs :
    /\ mapCall[p].op = "cleanupOrphanedMappings"
    /\ mapCall[p].names # {}
    /\ mapCall[p].changes > 0
    /\ mappings # {}

\* C24 (as claimed): after any sequence of working-hours toggles through
\* MappingService.updateWorkingHours, with the WxCC data fixed, no two
\* mappings whose workingHoursActive is true refer to overrides of the same
\* container whose windows overlap.
C24_NoOverlappingActive ==
  \A m1, m2 \in mappings :
    (m1 # m2 /\ m1.workingHoursActive /\ m2.workingHoursActive) =>
      \A i \in 1..Len(wxcc) :
        (m1.overrideName \in Names(wxcc[i])
           /\ m2.overrideName \in Names(wxcc[i])) =>
          ~WindowsOverlap(EntryOf(wxcc[i], m1.overrideName),
                          EntryOf(wxcc[i], m2.overrideName))

\* Positions of the engaged entries of other agents overlapping the candidate
Overlapping(c, agentId, upd) ==
  {i \in 1..Len(c.overrides) :
     /\ c.overrides[i].name # agentId
     /\ c.overrides[i].workingHours
     /\ WindowsOverlap(upd, c.overrides[i])}

\* The schedule errors of an error list, in order
ScheduleErrors(errors) == SelectSeq(errors, LAMBDA e : e.field = "schedule")

\* C25: when engaged entries of other agents overlap an engaged candidate,
\* validation reports exactly one schedule error, and it names the first
\* overlapping engaged entry in the container's entry order; no later
\* conflicting entry is reported.
C25_FirstConflictOnly ==
  \A p \in Procs :
    (/\ calls[p].validated
     /\ calls[p].updateData[1].workingHours
     /\ WindowParsable(calls[p].updateData[1])) =>
      LET hits == Overlapping(Seen(calls[p]), calls[p].agentId,
                              calls[p].updateData[1])
          errs == ScheduleErrors(calls[p].validation)
      IN  IF hits = {} THEN errs = <<>>
          ELSE /\ Len(errs) = 1
               /\ errs[1].conflictingAgentId
                    = Seen(calls[p]).overrides[CHOOSE i \in hits :
                                            \A j \in hits : i <= j].name
               /\ errs[1].agentId = calls[p].agentId

\* a candidate overlapped by both other engaged entries was validated and
\* the one error names the first of them
C25_Witness ==
  \E p \in Procs :
    /\ calls[p].validated
    /\ calls[p].updateData[1].workingHours
    /\ WindowParsable(calls[p].updateData[1])
    /\ Cardinality(Overlapping(Seen(calls[p]), calls[p].agentId,
                               calls[p].updateData[1])) = 2
    /\ Len(ScheduleErrors(calls[p].validation)) = 1
    /\ ScheduleErrors(calls[p].validation)[1].conflictingAgentId = "a"

\* C26: getAllContainersWithAgents fails iff the list call fails; when the
\* list call succeeds it returns exactly the containers whose detail fetch
\* succeeded, in list order, each with the agents of its overrides.
C26_PartialReadTolerated ==
  \A p \in Procs :
    (mapCall[p].op = "getAllContainersWithAgents" /\ mapCall[p].pc = "done") =>
      LET c    == mapCall[p]
          io   == c.io[1]
          kept == SelectSeq(wxcc, LAMBDA x : x.id \notin io.down)
      IN  /\ (c.error.kind # "none") <=> ~io.listOk
          /\ io.listOk =>
               /\ Len(c.returned) = Len(kept)
               /\ \A i \in 1..Len(kept) :
                    /\ c.returned[i].id = kept[i].id
                    /\ Len(c.returned[i].agents) = Len(kept[i].overrides)
                    /\ \A k \in 1..Len(kept[i].overrides) :
                         c.returned[i].agents[k].agentId
                           = kept[i].overrides[k].name

\* the detail fetch of the first container failed and the call returned the
\* second container alone
C26_Witness ==
  \E p \in Procs :
    /\ mapCall[p].op = "getAllContainersWithAgents"
    /\ mapCall[p].pc = "done"
    /\ mapCall[p].io[1].listOk
    /\ mapCall[p].io[1].down = {ContainerId}
    /\ mapCall[p].error.kind = "none"
    /\ Len(mapCall[p].returned) = 1
    /\ mapCall[p].returned[1].id = SecondContainerId

\* C27 (as claimed): every entry written by a successful update has its
\* start strictly before its end in the stored representation; stated here
\* for the candidates whose start instant is strictly before their end
\* instant, which includes those with both in the same minute.
C27_StoredStartBeforeEnd ==
  \A p \in Procs :
    (/\ calls[p].pc = "done"
     /\ calls[p].error.kind = "none"
     /\ calls[p].wroteAt > 0
     /\ WindowParsable(calls[p].updateData[1])
     /\ calls[p].updateData[1].startDateTime.t
          < calls[p].updateData[1].endDateTime.t) =>
      LET e == EntryOf(container, calls[p].agentId)
      IN  /\ WindowParsable(e)
          /\ e.startDateTime.t < e.endDateTime.t

\* C28 (as claimed): under any interleaving of concurrent updates of one
\* container that starts without conflicts, the container stored at the
\* vendor never holds two engaged entries with overlapping windows, and two
\* calls that engage different entries on overlapping windows do not both
\* succeed.
C28_ConcurrentConflictFree ==
  /\ \A i, j \in 1..Len(container.overrides) :
       LET x == container.overrides[i]
           y == container.overrides[j]
       IN  (i < j /\ x.workingHours /\ y.workingHours) => ~WindowsOverlap(x, y)
  /\ \A p, q \in Procs :
       (/\ p # q
        /\ calls[p].pc = "done" /\ calls[p].error.kind = "none"
        /\ calls[q].pc = "done" /\ calls[q].error.kind = "none"
        /\ calls[p].agentId # calls[q].agentId
        /\ calls[p].updateData[1].workingHours
        /\ calls[q].updateData[1].workingHours)
         => ~WindowsOverlap(calls[p].updateData[1], calls[q].updateData[1])

\* C29 (as claimed): in every agent record of the frontend response whose
\* timestamps are parsable, isCurrentlyActive is true iff the status label
\* is active, whatever time passed between the clock read of the label and
\* the clock read of the live flag.
C29_LiveIffActive ==
  view.pc = "done" =>
    \A i \in 1..Len(view.response) :
      WindowParsable(view.response[i]) =>
        (view.response[i].isCurrentlyActive
           <=> view.response[i].status = "active")

\* C30 (as claimed): whenever an update reports a failure to its caller, the
\* container stored at the vendor was not changed by that call: the call has
\* not had a PUT stored whose container differs from the one it had read.
C30_FailureLeavesVendorUnchanged ==
  \A p \in Procs :
    (calls[p].pc = "done" /\ calls[p].error.kind # "none") =>
      ~(/\ calls[p].wroteAt > 0
        /\ calls[p].payload[1] # calls[p].fullContainer[1])

====
